---- MODULE Spec2Model ----
(***************************************************************************)
(* Model of the sentence-synchronised speech playback engine of            *)
(* pdf-text-to-speech: the SpeechController of src/speech-controller.js,   *)
(* the browser's speechSynthesis queue it drives, and the browser timers   *)
(* (setTimeout / setInterval) its handlers are scheduled on.               *)
(*                                                                         *)
(* Every handler of the controller is an operator from a world record to a *)
(* world record, so that a handler that calls another handler is the       *)
(* composition of the two operators, in the order of the code.  An action  *)
(* of the specification is one JavaScript task: a caller command, a        *)
(* backend event or a timer callback, run to completion.                   *)
(*                                                                         *)
(* Around the controller: the TextToSpeechApp of src/script.js (its text,  *)
(* its three playback buttons, its progress line), the clock read by the   *)
(* time-based highlighting, the voice settings and the sentence segmenter  *)
(* of the PDFReader (src/unnamed/part_000).                                *)
(***************************************************************************)
EXTENDS Integers, Sequences, FiniteSets, TLC

\* ------------------------------------------------------------------ bounds
MaxStale    == 0     \* things of earlier sessions pending when one starts
MaxOverlap  == 1     \* the same, in the specification of overlapping sessions
MaxChar     == 4     \* largest character offset of a boundary event
MaxLoads    == 1     \* PDF loads under way at a time
MaxTicks    == 4     \* steps of the clock in a behaviour
ClockStep   == 200   \* ms the clock advances in one step
MaxLen      == 3     \* longest text handed to the segmenter
MaxCalls    == 2     \* loadPDF calls in a behaviour of the reader

\* ------------------------------------------------------- program constants
VoiceLoadDelay   == 100   \* speak(): setTimeout(..., 100)
StartDelay       == 50    \* initiateSpeech(): setTimeout(..., 50)
StateChangeDelay == 50    \* utterance handlers: setTimeout(..., 50)
ErrorResetDelay  == 5000  \* showError(): setTimeout(..., 5000)
MaxInterval      == 500   \* startTimeBasedHighlighting(): Math.min(500, ...)
MaxRetries       == 3     \* loadPDF(): const maxRetries = 3
WordsPerMinute   == 150   \* startTimeBasedHighlighting(): 150 * rate

\* ------------------------------------------------------------------ inputs
\* A text is a sequence of characters.
TextEmpty == << >>
TextBlank == <<" ", " ">>
TextOk    == <<"a", ".", " ", "b">>
Texts     == {TextEmpty, TextBlank, TextOk}

\* Sentence records as the segmenter builds them for "a. b" (spans chained).
NoSentences  == << >>
TwoSentences == << [id |-> 0, startChar |-> 0, endChar |-> 1],
                   [id |-> 1, startChar |-> 2, endChar |-> 3] >>
SentenceLists == {NoSentences, TwoSentences}

\* What the application passes to speak(): a text and the sentences the
\* segmenter found in it (none in a text without words).
Requests == { <<TextBlank, NoSentences>>, <<TextOk, NoSentences>>,
              <<TextOk, TwoSentences>> }

\* Voice catalogs the backend can offer (speechSynthesis.getVoices()).
\* google stands for name.includes('Google').
DeVoice   == [name |-> "Anna", lang |-> "de", google |-> FALSE,
              default |-> TRUE]
EnVoice   == [name |-> "Samantha", lang |-> "en", google |-> FALSE,
              default |-> FALSE]
GoVoice   == [name |-> "Google US English", lang |-> "en", google |-> TRUE,
              default |-> FALSE]
Loaded    == <<DeVoice, EnVoice, GoVoice>>
Catalogs  == { << >>, Loaded }

\* More voices, and the catalogs a platform can announce over time: none,
\* no English voice, Google voices behind others, a default voice without a
\* Google voice, and neither.
DfVoice   == [name |-> "Daniel", lang |-> "en", google |-> FALSE,
              default |-> TRUE]
AlVoice   == [name |-> "Alex", lang |-> "en", google |-> FALSE,
              default |-> FALSE]
UkVoice   == [name |-> "Google UK English", lang |-> "en", google |-> TRUE,
              default |-> FALSE]
GdVoice   == [name |-> "Google Deutsch", lang |-> "de", google |-> TRUE,
              default |-> FALSE]
VoiceCatalogs ==
    { << >>, <<DeVoice, GdVoice>>, Loaded,
      <<GdVoice, EnVoice, DfVoice, UkVoice, GoVoice>>,
      <<DeVoice, AlVoice, DfVoice>>, <<DeVoice, AlVoice, EnVoice>> }

\* Points at which the platform can throw while a session is started.
Failures == {"none", "utterance", "speak"}

\* A number of the voice settings: v tenths, or NaN.
Num(v) == [nan |-> FALSE, v |-> v]

NaN == [nan |-> TRUE, v |-> 0]

\* A JavaScript value handed to a setter: a number or a string.
NumberValue(n) == [type |-> "number", num |-> n, str |-> << >>]

StringValue(str) == [type |-> "string", num |-> NaN, str |-> str]

\* setRate(3.0), setRate(0.1), setPitch(-1), values in range, NaN, and the
\* strings "1.5", "0.7", "fast" and "".
SettingInputs ==
    { NumberValue(Num(30)), NumberValue(Num(1)), NumberValue(Num(-10)),
      NumberValue(Num(10)), NumberValue(Num(5)), NumberValue(Num(20)),
      NumberValue(NaN),
      StringValue(<<"1", ".", "5">>), StringValue(<<"0", ".", "7">>),
      StringValue(<<"f", "a", "s", "t">>), StringValue(<< >>) }

\* Voice names a caller can ask for: two of the loaded catalog, one the
\* platform has but loadVoices() filters out, one nobody has.
VoiceNames == {"Samantha", "Google US English", "Anna", "Zarvox"}

\* file.type of the files a user can hand to processFile().
FileTypes == {"application/pdf", "text/plain", ""}

\* Texts the PDFReader can extract from a PDF: cleaned, possibly empty.
Extracts == {TextEmpty, TextOk}

VARIABLES
    \* --- SpeechController fields
    currentUtterance,      \* id of the utterance object, 0 for null
    voices,                \* filtered voice catalog
    isPlaying,
    isPaused,
    currentSentenceIndex,
    sentences,
    textElement,           \* TRUE when an element was given (FALSE: null)
    currentText,
    highlightingTimer,     \* interval id, 0 for null
    stateChangeTimeout,    \* timeout id, 0 for null
    settingsVoice,         \* settings.voice, the record or "null"
    \* --- DOM classes of the sentence elements of textElement
    hlCurrent,             \* indices carrying highlight-current
    hlSpoken,              \* indices carrying highlight-spoken
    \* --- window.speechSynthesis
    queue,                 \* utterance ids queued, the head is the spoken one
    headStarted,           \* the head has begun to be spoken
    synthPaused,           \* speechSynthesis.paused
    synthVoices,           \* catalog returned by getVoices()
    boundarySupported,     \* 'onboundary' in utterance
    attached,              \* utterances whose on* handlers are set
    events,                \* events dispatched by the backend, in flight
    \* --- browser timers
    timers,                \* pending timeouts and intervals, oldest first
    \* --- sessions
    session,               \* id of the session the last speak() started
    stopped,               \* stop() was the last command of the caller
    superseded,            \* sessions that were Speaking when speak() came
    \* --- voice settings and the clock
    settings,              \* settings.rate, settings.pitch, settings.volume
    speechStartTime,       \* Date.now() at the last start event, 0 after stop()
    now,                   \* Date.now(), in ms
    pausedFor,             \* ms the clock advanced while the session was Paused
    \* --- TextToSpeechApp and its PDFReader
    app,                   \* the application's fields, buttons, progress line
    reader                 \* the PDFReader's fields and its loadPDF calls

vars == << currentUtterance, voices, isPlaying, isPaused,
           currentSentenceIndex, sentences, textElement, currentText,
           highlightingTimer, stateChangeTimeout, settingsVoice,
           hlCurrent, hlSpoken, queue, headStarted, synthPaused,
           synthVoices, boundarySupported, attached, events, timers,
           session, stopped, superseded, settings, speechStartTime, now,
           pausedFor, app, reader >>

\* The world as one record; every handler maps a world to a world.  Three
\* fields belong to the running task: fired and calls log the caller
\* callbacks it invokes and the backend methods it calls, in order, and
\* settling says that the task has called cancel() on a busy backend whose
\* speaking attribute still reads true (it follows the speech service
\* asynchronously on some platforms, at once on others).
World ==
    [ currentUtterance |-> currentUtterance, voices |-> voices,
      isPlaying |-> isPlaying, isPaused |-> isPaused,
      currentSentenceIndex |-> currentSentenceIndex,
      sentences |-> sentences, textElement |-> textElement,
      currentText |-> currentText,
      highlightingTimer |-> highlightingTimer,
      stateChangeTimeout |-> stateChangeTimeout,
      settingsVoice |-> settingsVoice,
      hlCurrent |-> hlCurrent, hlSpoken |-> hlSpoken,
      queue |-> queue, headStarted |-> headStarted,
      synthPaused |-> synthPaused,
      synthVoices |-> synthVoices,
      boundarySupported |-> boundarySupported, attached |-> attached,
      events |-> events, timers |-> timers, session |-> session,
      stopped |-> stopped, superseded |-> superseded,
      settings |-> settings, speechStartTime |-> speechStartTime,
      now |-> now, pausedFor |-> pausedFor, app |-> app,
      reader |-> reader,
      fired |-> << >>, calls |-> << >>, settling |-> FALSE ]

\* Timer ids are opaque handles: the pending timers are renumbered by age
\* and the two fields that hold a handle follow; the handle of a timeout
\* that has already run is Gone (non-null, clearTimeout does nothing).
Gone == -1

PositionOf(ts, id) ==
    IF \E i \in 1..Len(ts) : ts[i].id = id
    THEN CHOOSE i \in 1..Len(ts) : ts[i].id = id
    ELSE IF id = 0 THEN 0 ELSE Gone

\* Handlers of an utterance that is neither queued nor the current one can
\* only run for an event already in flight; an event in flight for an
\* utterance without handlers does nothing when it arrives.
Relevant(w) ==
    {w.queue[i] : i \in 1..Len(w.queue)}
        \cup {w.events[i].u : i \in 1..Len(w.events)}
        \cup {w.currentUtterance}

Collect(w) ==
    LET att == w.attached \cap Relevant(w)
    IN [w EXCEPT
          !.attached = att,
          !.events = SelectSeq(w.events, LAMBDA e : e.u \in att),
          !.timers = [i \in 1..Len(w.timers) |->
                         [w.timers[i] EXCEPT !.id = i]],
          !.stateChangeTimeout = PositionOf(w.timers, w.stateChangeTimeout),
          !.highlightingTimer = PositionOf(w.timers, w.highlightingTimer)]

\* Session ids (an utterance carries the id of its session) are opaque too:
\* the sessions something still refers to, and the latest one, are
\* renumbered 1, 2, ... by age.
Referred(w) ==
    ({w.queue[i] : i \in 1..Len(w.queue)}
        \cup {w.events[i].u : i \in 1..Len(w.events)}
        \cup {w.timers[i].sess : i \in 1..Len(w.timers)}
        \cup w.attached
        \cup {w.currentUtterance}) \ {0}

Live(w) == Referred(w) \cup ({w.session} \ {0})

Rank(L, id) == Cardinality({l \in L : l <= id})

Renumber(w) ==
    LET L == Live(w)
    IN [w EXCEPT
          !.session = Rank(L, @),
          !.superseded = {Rank(L, a) : a \in @ \cap Referred(w)},
          !.currentUtterance = Rank(L, @),
          !.attached = {Rank(L, u) : u \in @},
          !.queue = [i \in 1..Len(w.queue) |-> Rank(L, w.queue[i])],
          !.events = [i \in 1..Len(w.events) |->
                         [w.events[i] EXCEPT !.u = Rank(L, @)]],
          !.timers = [i \in 1..Len(w.timers) |->
                         [w.timers[i] EXCEPT !.sess = Rank(L, @)]]]

Normalize(w) == Renumber(Collect(w))

\* The world w becomes the next state.
Commit(w) ==
    /\ currentUtterance' = w.currentUtterance
    /\ voices' = w.voices
    /\ isPlaying' = w.isPlaying
    /\ isPaused' = w.isPaused
    /\ currentSentenceIndex' = w.currentSentenceIndex
    /\ sentences' = w.sentences
    /\ textElement' = w.textElement
    /\ currentText' = w.currentText
    /\ highlightingTimer' = w.highlightingTimer
    /\ stateChangeTimeout' = w.stateChangeTimeout
    /\ settingsVoice' = w.settingsVoice
    /\ hlCurrent' = w.hlCurrent
    /\ hlSpoken' = w.hlSpoken
    /\ queue' = w.queue
    /\ headStarted' = w.headStarted
    /\ synthPaused' = w.synthPaused
    /\ synthVoices' = w.synthVoices
    /\ boundarySupported' = w.boundarySupported
    /\ attached' = w.attached
    /\ events' = w.events
    /\ timers' = w.timers
    /\ session' = w.session
    /\ stopped' = w.stopped
    /\ superseded' = w.superseded
    /\ settings' = w.settings
    /\ speechStartTime' = w.speechStartTime
    /\ now' = w.now
    /\ pausedFor' = w.pausedFor
    /\ app' = w.app
    /\ reader' = w.reader

\* The task's final world becomes the next state (evaluated once).
Apply(v) == \E w \in {Normalize(v)} : Commit(w)

\* ----------------------------------------------------------------- helpers
SeqFilterOut(s, id) == SelectSeq(s, LAMBDA t : t.id # id)

\* \s of the texts here: the space, and the newline between pages.
IsSpace(c) == c \in {" ", "\n"}

RECURSIVE TrimLeft(_)
TrimLeft(t) ==
    IF t # << >> /\ IsSpace(Head(t)) THEN TrimLeft(Tail(t)) ELSE t

RECURSIVE TrimRight(_)
TrimRight(t) ==
    IF t # << >> /\ IsSpace(t[Len(t)])
    THEN TrimRight(SubSeq(t, 1, Len(t) - 1))
    ELSE t

\* String.prototype.trim
Trim(t) == TrimRight(TrimLeft(t))

\* The emptiness test without the trim.
NoTextUntrimmed(t) == t = << >>

\* !text || text.trim() === ''
NoText(t) == t = << >> \/ Trim(t) = << >>

\* ----------------------------------------------------------------- timers
TimerIds(w) == {w.timers[i].id : i \in 1..Len(w.timers)}

Max(S) == CHOOSE m \in S : \A x \in S : x <= m

Min(a, b) == IF a <= b THEN a ELSE b

\* A new timer gets an id larger than every id that is still referred to.
FreshTimerId(w) ==
    1 + Max(TimerIds(w) \cup {w.stateChangeTimeout, w.highlightingTimer, 0})

\* A duration in ms as the quotient num / den, or NaN; timers other than
\* the estimator's interval capture none.
Duration(num, den) == [nan |-> FALSE, num |-> num, den |-> den]

NoEst == [nan |-> TRUE, num |-> 0, den |-> 1]

\* setTimeout: the new timer is the youngest one.
SetTimer(w, kind, sess, arg, delay) ==
    [w EXCEPT !.timers = Append(@, [id |-> FreshTimerId(w), kind |-> kind,
                                    sess |-> sess, arg |-> arg,
                                    delay |-> delay, est |-> NoEst])]

\* setInterval of the estimator: its callback keeps estimatedDuration.
SetInterval(w, sess, est, delay) ==
    [w EXCEPT !.timers = Append(@, [id |-> FreshTimerId(w),
                                    kind |-> "interval", sess |-> sess,
                                    arg |-> "", delay |-> delay,
                                    est |-> est])]

\* clearTimeout / clearInterval
ClearTimer(w, id) == [w EXCEPT !.timers = SeqFilterOut(@, id)]

\* --------------------------------------------------------------- numbers
\* Math.min / Math.max: NaN if either argument is NaN.
MathMin(a, b) == IF a.nan \/ b.nan THEN NaN ELSE IF a.v <= b.v THEN a ELSE b

MathMax(a, b) == IF a.nan \/ b.nan THEN NaN ELSE IF a.v >= b.v THEN a ELSE b

Digits == <<"0", "1", "2", "3", "4", "5", "6", "7", "8", "9">>

IsDigit(c) == \E d \in 1..10 : Digits[d] = c

DigitOf(c) == (CHOOSE d \in 1..10 : Digits[d] = c) - 1

RECURSIVE LeadingDigits(_)
LeadingDigits(t) ==
    IF t # << >> /\ IsDigit(Head(t))
    THEN <<Head(t)>> \o LeadingDigits(Tail(t))
    ELSE << >>

RECURSIVE Decimal(_, _)
Decimal(ds, acc) ==
    IF ds = << >> THEN acc
    ELSE Decimal(Tail(ds), 10 * acc + DigitOf(Head(ds)))

\* parseFloat: a number is returned as it is; of a string the longest
\* prefix that reads [ws][sign]digits[.digits] is converted (to tenths,
\* the precision of the settings here), NaN if there is no digit.
parseFloat(x) ==
    IF x.type = "number" THEN x.num
    ELSE LET s0  == TrimLeft(x.str)
             neg == s0 # << >> /\ Head(s0) = "-"
             s1  == IF s0 # << >> /\ Head(s0) \in {"-", "+"} THEN Tail(s0)
                    ELSE s0
             ip  == LeadingDigits(s1)
             r   == SubSeq(s1, Len(ip) + 1, Len(s1))
             fp  == IF r # << >> /\ Head(r) = "." THEN LeadingDigits(Tail(r))
                    ELSE << >>
             tenths == 10 * Decimal(ip, 0)
                       + (IF fp = << >> THEN 0 ELSE DigitOf(fp[1]))
         IN IF ip = << >> /\ fp = << >> THEN NaN
            ELSE Num(IF neg THEN 0 - tenths ELSE tenths)

\* ---------------------------------------- the application's callbacks
\* The controller's own notion of Speaking: isSpeaking().
isSpeaking(w) == w.isPlaying /\ ~w.isPaused

\* TextToSpeechApp.updateUI: the enablement of the three buttons.
updateUI(w) ==
    [w EXCEPT !.app.playDisabled = ~w.app.isTextLoaded \/ isSpeaking(w),
              !.app.pauseDisabled = ~isSpeaking(w),
              !.app.stopDisabled = ~isSpeaking(w) /\ ~w.isPaused]

\* TextToSpeechApp.updateProgress: the progress line shows the message.
updateProgress(w, message) == [w EXCEPT !.app.progressText = message]

\* TextToSpeechApp.showError: the message, and after 5 s 'Ready' again.
\* The reset timeouts all do the same; one pending stands for all of them.
showError(w, message) ==
    LET w1 == updateProgress(w, <<"Error">> \o message)
    IN IF \E i \in 1..Len(w1.timers) : w1.timers[i].kind = "errorReset"
       THEN w1
       ELSE SetTimer(w1, "errorReset", 0, "", ErrorResetDelay)

\* The body of that timeout.
errorResetTimeout(w) ==
    IF w.app.progressText # << >> /\ Head(w.app.progressText) = "Error"
    THEN updateProgress(w, <<"Ready">>)
    ELSE w

\* The callbacks setupCallbacks() registers with the controller.
AppCallback(w, cb, msg, idx) ==
    CASE cb = "onStart"  -> updateProgress(updateUI(w), <<"Speaking...">>)
      [] cb = "onEnd"    -> updateProgress(updateUI(w), <<"Finished">>)
      [] cb = "onPause"  -> updateProgress(updateUI(w), <<"Paused">>)
      [] cb = "onResume" -> updateProgress(updateUI(w), <<"Speaking...">>)
      [] cb = "onError"  -> showError(w, msg)
      [] cb = "onProgress" ->
            updateProgress(w, <<"Speaking sentence", Digits[idx + 2], "of",
                                Digits[Len(w.sentences) + 1]>>)
      [] OTHER -> w

\* The controller invokes a callback: the invocation is logged, and the
\* application's callback runs if an application has registered it.
Emit(w, cb, msg, idx) ==
    LET w1 == [w EXCEPT !.fired = Append(@, [cb |-> cb, msg |-> msg,
                                             idx |-> idx])]
    IN IF w1.app.present THEN AppCallback(w1, cb, msg, idx) ELSE w1

\* ------------------------------------------------------- speechSynthesis
\* speechSynthesis.speaking: an utterance is being spoken, or the backend
\* has not yet taken note of the cancel() of the running task.
SynthSpeaking(w) == (w.queue # << >> /\ w.headStarted) \/ w.settling

\* speechSynthesis.pending || speechSynthesis.speaking
SynthBusy(w) == w.queue # << >> \/ SynthSpeaking(w)

\* The utterance that is being spoken, 0 for none.
Spoken(w) == IF w.queue # << >> /\ w.headStarted THEN Head(w.queue) ELSE 0

PostEvent(w, u, kind, reason) ==
    [w EXCEPT !.events = Append(@, [u |-> u, kind |-> kind,
                                    reason |-> reason])]

RECURSIVE CancelEvents(_, _, _)
CancelEvents(w, q, first) ==
    IF q = << >> THEN w
    ELSE CancelEvents(
           PostEvent(w, Head(q), "error",
                     IF first /\ w.headStarted THEN "interrupted"
                     ELSE "canceled"),
           Tail(q), FALSE)

\* speechSynthesis.cancel(): the queue is emptied, every removed utterance
\* is sent an error event; the paused flag is left as it is.
SynthCancel(w) ==
    LET w1 == CancelEvents(w, w.queue, TRUE)
    IN [w1 EXCEPT !.queue = << >>, !.headStarted = FALSE,
                  !.settling = (SynthSpeaking(w) \/ w.settling),
                  !.calls = Append(@, "cancel")]

\* speechSynthesis.pause()
SynthPause(w) ==
    LET w1 == [w EXCEPT !.calls = Append(@, "pause")]
    IN IF w1.synthPaused THEN w1
       ELSE LET w2 == [w1 EXCEPT !.synthPaused = TRUE]
            IN IF Spoken(w2) # 0
               THEN PostEvent(w2, Spoken(w2), "pause", "")
               ELSE w2

\* speechSynthesis.resume()
SynthResume(w) ==
    LET w1 == [w EXCEPT !.calls = Append(@, "resume")]
    IN IF ~w1.synthPaused THEN w1
       ELSE LET w2 == [w1 EXCEPT !.synthPaused = FALSE]
            IN IF Spoken(w2) # 0
               THEN PostEvent(w2, Spoken(w2), "resume", "")
               ELSE w2

\* speechSynthesis.speak(utterance)
SynthSpeak(w, u) ==
    [w EXCEPT !.queue = Append(@, u), !.calls = Append(@, "speak")]

\* ------------------------------------------------------- SpeechController
NullVoice == "null"

FilterEn(cat) == SelectSeq(cat, LAMBDA v : v.lang = "en")

\* Array.prototype.find: the name of the first voice whose field f is
\* true, or "null".
Find(vs, f) ==
    IF \E i \in 1..Len(vs) : vs[i][f]
    THEN vs[CHOOSE i \in 1..Len(vs) :
                vs[i][f] /\ \A j \in 1..(i - 1) : ~vs[j][f]].name
    ELSE NullVoice

\* loadVoices() that prefers the default voice to a Google voice.
loadVoicesPreferringDefault(w) ==
    LET vs == FilterEn(w.synthVoices)
        w1 == [w EXCEPT !.voices = vs]
        googleVoice  == Find(vs, "google")
        defaultVoice == Find(vs, "default")
    IN IF w1.settingsVoice = NullVoice /\ Len(vs) > 0
       THEN [w1 EXCEPT !.settingsVoice =
                IF defaultVoice # NullVoice THEN defaultVoice
                ELSE IF googleVoice # NullVoice THEN googleVoice
                ELSE vs[1].name]
       ELSE w1

\* loadVoices() without the test of settings.voice.
loadVoicesAlwaysSelecting(w) ==
    LET vs == FilterEn(w.synthVoices)
        w1 == [w EXCEPT !.voices = vs]
        googleVoice  == Find(vs, "google")
        defaultVoice == Find(vs, "default")
    IN IF Len(vs) > 0
       THEN [w1 EXCEPT !.settingsVoice =
                IF googleVoice # NullVoice THEN googleVoice
                ELSE IF defaultVoice # NullVoice THEN defaultVoice
                ELSE vs[1].name]
       ELSE w1

loadVoices(w) ==
    LET vs == FilterEn(w.synthVoices)
        w1 == [w EXCEPT !.voices = vs]
        googleVoice  == Find(vs, "google")
        defaultVoice == Find(vs, "default")
    IN IF w1.settingsVoice = NullVoice /\ Len(vs) > 0
       THEN [w1 EXCEPT !.settingsVoice =
                IF googleVoice # NullVoice THEN googleVoice
                ELSE IF defaultVoice # NullVoice THEN defaultVoice
                ELSE vs[1].name]
       ELSE w1

\* Math.max(lo, Math.min(hi, parseFloat(x))), bounds in tenths.
Clamp(lo, hi, x) == MathMax(Num(lo), MathMin(Num(hi), parseFloat(x)))

setRate(w, rate) == [w EXCEPT !.settings.rate = Clamp(5, 20, rate)]

setPitch(w, pitch) == [w EXCEPT !.settings.pitch = Clamp(5, 20, pitch)]

setVolume(w, volume) == [w EXCEPT !.settings.volume = Clamp(0, 10, volume)]

\* The name of the first voice of catalog vs that has this name.
FindByName(vs, voiceName) ==
    IF \E i \in 1..Len(vs) : vs[i].name = voiceName THEN voiceName
    ELSE NullVoice

\* setVoiceByName() that looks the name up in the platform's catalog.
setVoiceByNameOfPlatform(w, voiceName) ==
    LET voice == FindByName(w.synthVoices, voiceName)
    IN IF voice # NullVoice THEN [w EXCEPT !.settingsVoice = voice] ELSE w

setVoiceByName(w, voiceName) ==
    LET voice == FindByName(w.voices, voiceName)
    IN IF voice # NullVoice THEN [w EXCEPT !.settingsVoice = voice] ELSE w

setVoice(w, voice) == [w EXCEPT !.settingsVoice = voice]

clearHighlightingTimers(w) ==
    IF w.highlightingTimer # 0
    THEN [ClearTimer(w, w.highlightingTimer) EXCEPT !.highlightingTimer = 0]
    ELSE w

clearHighlighting(w) ==
    IF ~w.textElement THEN w
    ELSE [w EXCEPT !.hlCurrent = {}, !.hlSpoken = {}]

highlightCurrentSentence(w) ==
    IF ~w.textElement \/ Len(w.sentences) = 0 THEN w
    ELSE
      LET n  == Len(w.sentences)
          i  == w.currentSentenceIndex
          w1 == clearHighlighting(w)
          w2 == IF i < n
                THEN Emit([w1 EXCEPT !.hlCurrent = {i}],
                          "onSentenceStart", << >>, i)
                ELSE w1
          w3 == [w2 EXCEPT !.hlSpoken = {k \in 0..(n - 1) : k < i}]
      IN Emit(w3, "onProgress", << >>, i)

\* totalText.split(/\s+/).length: one more than the runs of whitespace.
RECURSIVE WordCount(_)
WordCount(t) ==
    IF t = << >> THEN 1
    ELSE IF IsSpace(Head(t))
    THEN IF Len(t) > 1 /\ IsSpace(t[2]) THEN WordCount(Tail(t))
         ELSE 1 + WordCount(Tail(t))
    ELSE WordCount(Tail(t))

\* (totalWords / (150 * rate)) * 60 * 1000, rate being in tenths.
EstimatedDuration(w) ==
    IF w.settings.rate.nan THEN NoEst
    ELSE Duration(WordCount(w.currentText) * 60 * 1000 * 10,
                  WordsPerMinute * w.settings.rate.v)

\* Math.min(500, estimatedDuration / (sentences.length * 2)); a NaN delay
\* is taken as 0 by setInterval.
UpdateInterval(w, est) ==
    IF est.nan THEN 0
    ELSE Min(MaxInterval, est.num \div (est.den * Len(w.sentences) * 2))

startTimeBasedHighlighting(w) ==
    IF Len(w.sentences) = 0 \/ ~w.textElement THEN w
    ELSE LET id  == FreshTimerId(w)
             est == EstimatedDuration(w)
             w1  == SetInterval(w, w.session, est, UpdateInterval(w, est))
         IN [w1 EXCEPT !.highlightingTimer = id]

setupBoundaryTracking(w) ==
    IF w.currentUtterance = 0 \/ Len(w.sentences) = 0 THEN w
    ELSE IF w.boundarySupported THEN w
    ELSE startTimeBasedHighlighting(w)

startSentenceHighlighting(w) ==
    IF Len(w.sentences) = 0 \/ ~w.textElement THEN w
    ELSE LET w1 == clearHighlightingTimers(w)
             w2 == [w1 EXCEPT !.currentSentenceIndex = 0]
         IN setupBoundaryTracking(highlightCurrentSentence(w2))

RECURSIVE FirstSpanExclusive(_, _, _)
\* The scan with spans that end before endChar.
FirstSpanExclusive(ss, c, i) ==
    IF i >= Len(ss) THEN -1
    ELSE IF c >= ss[i + 1].startChar /\ c < ss[i + 1].endChar THEN i
    ELSE FirstSpanExclusive(ss, c, i + 1)

RECURSIVE FirstSpan(_, _, _)
\* index (0-based) of the first sentence from i on whose span holds c, or -1
FirstSpan(ss, c, i) ==
    IF i >= Len(ss) THEN -1
    ELSE IF c >= ss[i + 1].startChar /\ c <= ss[i + 1].endChar THEN i
    ELSE FirstSpan(ss, c, i + 1)

updateHighlightingBasedOnPosition(w, charIndex) ==
    IF Len(w.sentences) = 0 \/ ~w.isPlaying THEN w
    ELSE LET i == FirstSpan(w.sentences, charIndex, 0)
         IN IF i >= 0 /\ i # w.currentSentenceIndex
            THEN highlightCurrentSentence(
                     [w EXCEPT !.currentSentenceIndex = i])
            ELSE w

\* stop() without the reset of currentSentenceIndex.
stopKeepingIndex(w) ==
    LET w1 == clearHighlightingTimers(w)
        w2 == IF w1.stateChangeTimeout # 0
              THEN [ClearTimer(w1, w1.stateChangeTimeout)
                       EXCEPT !.stateChangeTimeout = 0]
              ELSE w1
        w3 == IF SynthBusy(w2) THEN SynthCancel(w2) ELSE w2
        w4 == [w3 EXCEPT !.isPlaying = FALSE, !.isPaused = FALSE,
                         !.speechStartTime = 0,
                         !.currentText = << >>]
        w5 == clearHighlighting(w4)
    IN IF w5.currentUtterance # 0
       THEN [w5 EXCEPT !.attached = @ \ {w5.currentUtterance},
                       !.currentUtterance = 0]
       ELSE w5

stop(w) ==
    LET w1 == clearHighlightingTimers(w)
        w2 == IF w1.stateChangeTimeout # 0
              THEN [ClearTimer(w1, w1.stateChangeTimeout)
                       EXCEPT !.stateChangeTimeout = 0]
              ELSE w1
        w3 == IF SynthBusy(w2) THEN SynthCancel(w2) ELSE w2
        w4 == [w3 EXCEPT !.isPlaying = FALSE, !.isPaused = FALSE,
                         !.currentSentenceIndex = 0,
                         !.speechStartTime = 0,
                         !.currentText = << >>]
        w5 == clearHighlighting(w4)
    IN IF w5.currentUtterance # 0
       THEN [w5 EXCEPT !.attached = @ \ {w5.currentUtterance},
                       !.currentUtterance = 0]
       ELSE w5

startSpeechSynthesis(w, fail) ==
    IF fail = "speak" \/ w.currentUtterance = 0
    THEN Emit(w, "onError", <<"Speech synthesis failed">>, 0)
    ELSE LET w1 == SynthSpeak(w, w.currentUtterance)
             w2 == [w1 EXCEPT !.isPlaying = TRUE, !.isPaused = FALSE]
             w3 == Emit(w2, "onStart", << >>, 0)
         IN IF Len(w3.sentences) > 0 THEN startSentenceHighlighting(w3)
            ELSE w3

\* The utterance created for session sess carries the id sess.
initiateSpeech(w, sess, fail) ==
    IF fail = "utterance"
    THEN Emit(w, "onError", <<"Error initiating speech">>, 0)
    ELSE LET w1 == [w EXCEPT !.currentUtterance = sess,
                             !.attached = @ \cup {sess}]
         IN IF SynthBusy(w1)
            THEN SetTimer(SynthCancel(w1), "start", sess, "", StartDelay)
            ELSE startSpeechSynthesis(w1, fail)

\* lag: the backend still reads busy right after the cancel() of stop().
speak(w, text, ss, el, fail, lag) ==
    LET w0 == stop(w)
        w1 == IF lag THEN w0 ELSE [w0 EXCEPT !.settling = FALSE]
        w2 == [w1 EXCEPT !.currentText = text, !.sentences = ss,
                         !.textElement = el, !.currentSentenceIndex = 0]
    IN IF NoText(text)
       THEN Emit(w2, "onError",
                 <<"Error starting speech", "No text provided to speak">>, 0)
       ELSE LET w3 == [w2 EXCEPT !.session = @ + 1]
            IN IF Len(w3.voices) = 0
               THEN SetTimer(loadVoices(w3), "initiate", w3.session, "",
                             VoiceLoadDelay)
               ELSE initiateSpeech(w3, w3.session, fail)

\* pause() that flags the controller paused at once.
pauseEager(w) ==
    IF w.isPlaying /\ ~w.isPaused
       /\ SynthSpeaking(w)
    THEN [SynthPause(w) EXCEPT !.isPaused = TRUE]
    ELSE w

pause(w) ==
    IF w.isPlaying /\ ~w.isPaused /\ SynthSpeaking(w) THEN SynthPause(w)
    ELSE w

resume(w) ==
    IF w.isPaused /\ w.synthPaused THEN SynthResume(w) ELSE w

\* --------------------------------------------- utterance event handlers
onstart(w) ==
    LET w1 == [w EXCEPT !.speechStartTime = w.now,
                        !.isPlaying = TRUE, !.isPaused = FALSE]
        w2 == IF w1.stateChangeTimeout # 0
              THEN [ClearTimer(w1, w1.stateChangeTimeout)
                       EXCEPT !.stateChangeTimeout = 0]
              ELSE w1
    IN Emit(w2, "onStart", << >>, 0)

\* onend, onerror, onpause, onresume only schedule the state change.
ScheduleStateChange(w, kind, u, reason) ==
    LET id == FreshTimerId(w)
        w1 == SetTimer(w, kind, u, reason, StateChangeDelay)
    IN [w1 EXCEPT !.stateChangeTimeout = id]

onend(w, u)           == ScheduleStateChange(w, "end", u, "")
onerror(w, u, reason) == ScheduleStateChange(w, "error", u, reason)
onpause(w, u)         == ScheduleStateChange(w, "pause", u, "")
onresume(w, u)        == ScheduleStateChange(w, "resume", u, "")

\* The end timeout without clearHighlightingTimers().
endTimeoutKeepingTimers(w) ==
    LET w1 == [w EXCEPT !.isPlaying = FALSE, !.isPaused = FALSE]
    IN Emit(clearHighlighting(w1), "onEnd", << >>, 0)

\* The bodies of the four state-change timeouts.
endTimeout(w) ==
    LET w1 == [w EXCEPT !.isPlaying = FALSE, !.isPaused = FALSE]
    IN Emit(clearHighlightingTimers(clearHighlighting(w1)),
            "onEnd", << >>, 0)

errorTimeout(w, reason) ==
    LET w1 == [w EXCEPT !.isPlaying = FALSE, !.isPaused = FALSE]
    IN Emit(clearHighlightingTimers(clearHighlighting(w1)),
            "onError", <<"Speech error", reason>>, 0)

pauseTimeout(w) ==
    Emit(clearHighlightingTimers([w EXCEPT !.isPaused = TRUE]),
         "onPause", << >>, 0)

\* The resume timeout restarting the estimator whatever the sentences; the
\* interval of an empty list is Math.min(500, Infinity).
resumeTimeoutAlwaysEstimating(w) ==
    LET w1 == [w EXCEPT !.isPaused = FALSE]
        w2 == IF Len(w1.sentences) > 0 THEN startTimeBasedHighlighting(w1)
              ELSE [SetInterval(w1, w1.session, EstimatedDuration(w1),
                                MaxInterval)
                       EXCEPT !.highlightingTimer = FreshTimerId(w1)]
    IN Emit(w2, "onResume", << >>, 0)

resumeTimeout(w) ==
    LET w1 == [w EXCEPT !.isPaused = FALSE]
        w2 == IF Len(w1.sentences) > 0 THEN startTimeBasedHighlighting(w1)
              ELSE w1
    IN Emit(w2, "onResume", << >>, 0)

\* The body of the estimator interval; target is floor(progress * n).
intervalTick(w, target) ==
    IF ~w.isPlaying \/ w.isPaused THEN clearHighlightingTimers(w)
    ELSE IF target # w.currentSentenceIndex /\ target < Len(w.sentences)
    THEN highlightCurrentSentence(
            [w EXCEPT !.currentSentenceIndex = target])
    ELSE w

\* Math.floor(((t - speechStartTime) / estimatedDuration) * n)
TargetSentenceIndex(w, est, t) ==
    ((t - w.speechStartTime) * Len(w.sentences) * est.den) \div est.num

\* The body of the estimator interval when the clock reads t; with a NaN
\* duration the target is NaN, which is below no sentence count.
intervalAt(w, est, t) ==
    IF est.nan THEN intervalTick(w, Len(w.sentences))
    ELSE intervalTick(w, TargetSentenceIndex(w, est, t))

\* ------------------------------------------------------------- PDFReader
IsEnder(c) == c \in {".", "!", "?"}

RECURSIVE SkipEnders(_)
SkipEnders(t) ==
    IF t # << >> /\ IsEnder(Head(t)) THEN SkipEnders(Tail(t)) ELSE t

\* extractedText.split(/[.!?]+\s*/g): the pieces between the delimiters,
\* cur being the piece that is being read.
RECURSIVE SplitSentences(_, _)
SplitSentences(t, cur) ==
    IF t = << >> THEN <<cur>>
    ELSE IF IsEnder(Head(t))
    THEN <<cur>> \o SplitSentences(TrimLeft(SkipEnders(t)), << >>)
    ELSE SplitSentences(Tail(t), Append(cur, Head(t)))

\* The character positions without the character kept for the delimiter.
RECURSIVE PositionsNoGap(_, _, _)
PositionsNoGap(ts, i, charPosition) ==
    IF i > Len(ts) THEN << >>
    ELSE << [id |-> i - 1, text |-> ts[i], startChar |-> charPosition,
             endChar |-> charPosition + Len(ts[i])] >>
         \o PositionsNoGap(ts, i + 1, charPosition + Len(ts[i]))

\* The character positions with endChar on the last character.
RECURSIVE PositionsInclusiveEnd(_, _, _)
PositionsInclusiveEnd(ts, i, charPosition) ==
    IF i > Len(ts) THEN << >>
    ELSE << [id |-> i - 1, text |-> ts[i], startChar |-> charPosition,
             endChar |-> charPosition + Len(ts[i]) - 1] >>
         \o PositionsInclusiveEnd(ts, i + 1, charPosition + Len(ts[i]) + 1)

\* The sentence records of the kept pieces ts from the i-th on, the first
\* of them starting at charPosition (+1 for the sentence delimiter).
RECURSIVE Positions(_, _, _)
Positions(ts, i, charPosition) ==
    IF i > Len(ts) THEN << >>
    ELSE << [id |-> i - 1, text |-> ts[i], startChar |-> charPosition,
             endChar |-> charPosition + Len(ts[i])] >>
         \o Positions(ts, i + 1, charPosition + Len(ts[i]) + 1)

\* processSentences() that keeps the pieces that are empty after trimming.
processSentencesKeepingEmpty(text) ==
    IF text = << >> THEN << >>
    ELSE LET rawSentences == SplitSentences(text, << >>)
             trimmed == [i \in 1..Len(rawSentences) |->
                            Trim(rawSentences[i])]
         IN Positions(trimmed, 1, 0)

processSentences(text) ==
    IF text = << >> THEN << >>
    ELSE LET rawSentences == SplitSentences(text, << >>)
             trimmed == [i \in 1..Len(rawSentences) |->
                            Trim(rawSentences[i])]
         IN Positions(SelectSeq(trimmed, LAMBDA x : Len(x) > 0), 1, 0)

\* ------------------------------------------------------------- PDFReader
\* new PDFReader(): no document, no text; calls lists the loadPDF calls
\* made so far, each with its position and the callbacks it has invoked.
NullDoc == "null"

NewReader ==
    [pdfDocument |-> NullDoc, extractedText |-> << >>, sentences |-> << >>,
     calls |-> << >>]

\* PDFReader.clear()
clear(w) ==
    [w EXCEPT !.reader.pdfDocument = NullDoc,
              !.reader.extractedText = << >>,
              !.reader.sentences = << >>]

\* The files a user hands over: each page either yields its cleaned text
\* (processTextContent) or fails to be extracted.
Page(ok, text) == [ok |-> ok, text |-> text]

FileA ==
    [name |-> "A", type |-> "application/pdf",
     pages |-> <<Page(TRUE, <<"a", ".">>), Page(FALSE, << >>),
                 Page(TRUE, <<"b">>)>>]
FileB ==
    [name |-> "B", type |-> "application/pdf",
     pages |-> <<Page(TRUE, << >>), Page(TRUE, <<"c">>)>>]
FileBad ==
    [name |-> "X", type |-> "application/pdf",
     pages |-> <<Page(FALSE, << >>), Page(FALSE, << >>)>>]
PdfFiles == {FileA, FileB, FileBad}

FileOf(name) == CHOOSE f \in PdfFiles : f.name = name

PagesOf(name) == FileOf(name).pages

\* ------------------------------------------------------- TextToSpeechApp
\* new TextToSpeechApp(): no text, updateUI() has disabled the buttons.
NewApp ==
    [present |-> TRUE, currentText |-> << >>, currentSentences |-> << >>,
     isTextLoaded |-> FALSE, playDisabled |-> TRUE,
     pauseDisabled |-> TRUE, stopDisabled |-> TRUE,
     progressText |-> << >>, loading |-> 0, hasFile |-> FALSE]

clearText(w) ==
    stop([w EXCEPT !.app.currentText = << >>,
                   !.app.currentSentences = << >>,
                   !.app.isTextLoaded = FALSE])

\* PDFReader.loadPDF is under way: its first progress message is shown.
loadPDF(w) ==
    updateProgress([w EXCEPT !.app.loading = @ + 1], <<"Loading PDF...">>)

\* processFile() that goes on with a file of any type.
processFileOfAnyType(w, type) ==
    loadPDF(clearText([w EXCEPT !.app.hasFile = TRUE]))

processFile(w, type) ==
    IF type # "application/pdf"
    THEN showError(w, <<"Please select a valid PDF file">>)
    ELSE loadPDF(clearText([w EXCEPT !.app.hasFile = TRUE]))

clearFile(w) ==
    updateUI(clear(clearText([w EXCEPT !.app.hasFile = FALSE])))

onTextExtracted(w, text, ss) ==
    LET w1 == [w EXCEPT !.app.currentText = text,
                        !.app.currentSentences = ss,
                        !.app.isTextLoaded = TRUE]
    IN updateProgress(updateUI(w1), <<"Ready to play">>)

play(w, fail, lag) ==
    IF ~w.app.isTextLoaded \/ w.app.currentText = << >>
    THEN showError(w, <<"Please upload and process a PDF file first">>)
    ELSE IF w.isPaused THEN resume(w)
    ELSE speak(w, w.app.currentText, w.app.currentSentences, TRUE, fail,
               lag)

\* ------------------------------------------------- PDFReader.loadPDF
\* A call of loadPDF(): the file, the attempt, the await it stands at, the
\* locals of extractAllText(), the pages whose extraction succeeded, what
\* it has reported to the caller, and whether an earlier call was still
\* under way when it was made.
NewCall(file, overlaps) ==
    [file |-> file.name, overlaps |-> overlaps,
     attempt |-> 1, at |-> "start", pageNum |-> 0,
     numPages |-> 0, doc |-> NullDoc, textParts |-> << >>,
     okPages |-> << >>, lastError |-> "", extracted |-> 0, errors |-> 0,
     text |-> << >>, sentences |-> << >>]

SetCall(w, k, c) == [w EXCEPT !.reader.calls[k] = c]

RECURSIVE JoinPages(_)
\* textParts.join('\n\n')
JoinPages(parts) ==
    IF parts = << >> THEN << >>
    ELSE IF Len(parts) = 1 THEN parts[1]
    ELSE parts[1] \o <<"\n", "\n">> \o JoinPages(Tail(parts))

\* The end of extractAllText() and what loadPDF() does after it; the
\* continuation of loadPDF() follows in the same run of microtasks.
textExtracted(w, k) ==
    LET c    == w.reader.calls[k]
        text == Trim(JoinPages(c.textParts))
        w1   == [w EXCEPT !.reader.extractedText = text,
                          !.reader.sentences = processSentences(text)]
        w2   == updateProgress(w1, <<"Processing complete">>)
        w3   == onTextExtracted(w2, w2.reader.extractedText,
                                w2.reader.sentences)
    IN [SetCall(w3, k, [c EXCEPT !.at = "done", !.extracted = @ + 1,
                                 !.text = w2.reader.extractedText,
                                 !.sentences = w2.reader.sentences])
          EXCEPT !.app.loading = @ - 1]

RECURSIVE extractFrom(_, _, _)
\* The loop of extractAllText() from page pageNum on, up to its next await:
\* getPage() is called on the document this.pdfDocument holds by then, and
\* throws at once, into the catch of the page, if it holds none.
extractFrom(w, k, pageNum) ==
    LET c == w.reader.calls[k]
    IN IF pageNum > c.numPages THEN textExtracted(w, k)
       ELSE LET w1 == updateProgress(w, <<"Processing page",
                                          Digits[pageNum + 1], "of",
                                          Digits[c.numPages + 1]>>)
            IN IF w1.reader.pdfDocument = NullDoc
               THEN extractFrom(w1, k, pageNum + 1)
               ELSE SetCall(w1, k, [c EXCEPT !.at = "page",
                                             !.pageNum = pageNum,
                                             !.doc = w1.reader.pdfDocument])

\* getPage(pageNum) and getTextContent() have settled: with the text of the
\* page, or with a rejection that the catch of the page absorbs.
pageSettled(w, k) ==
    LET c     == w.reader.calls[k]
        pages == PagesOf(c.doc)
        got   == c.pageNum <= Len(pages) /\ pages[c.pageNum].ok
        parts == IF got /\ Trim(pages[c.pageNum].text) # << >>
                 THEN Append(c.textParts, pages[c.pageNum].text)
                 ELSE c.textParts
    IN extractFrom(
          SetCall(w, k, [c EXCEPT !.textParts = parts,
                                  !.okPages = IF got
                                              THEN Append(@, c.pageNum)
                                              ELSE @]),
          k, c.pageNum + 1)

\* getDocument() has resolved: the document is kept in this.pdfDocument
\* and extractAllText() begins.
documentResolved(w, k) ==
    LET c  == w.reader.calls[k]
        w1 == [w EXCEPT !.reader.pdfDocument = c.file]
        w2 == updateProgress(w1, <<"Extracting text...">>)
        w3 == SetCall(w2, k, [c EXCEPT !.numPages = Len(PagesOf(c.file)),
                                       !.textParts = << >>,
                                       !.okPages = << >>])
    IN extractFrom(w3, k, 1)

\* readFileWithRetry() has resolved: getDocument() is called.
readResolved(w, k) == SetCall(w, k, [w.reader.calls[k] EXCEPT !.at = "open"])

\* The 500 ms between two attempts are over: the file is read again.
delayElapsed(w, k) == SetCall(w, k, [w.reader.calls[k] EXCEPT !.at = "read"])

RECURSIVE loadPDFFrom(_, _)
RECURSIVE attemptFailed(_, _, _)
\* A catch that starts the next attempt whatever the attempt was.
attemptFailedRetryingForever(w, k, error) ==
    LET c == w.reader.calls[k]
    IN loadPDFFrom(
         SetCall(updateProgress(w, <<"Loading failed, retrying...",
                                     Digits[c.attempt + 1],
                                     Digits[MaxRetries + 1]>>), k,
                 [c EXCEPT !.attempt = IF @ < MaxRetries THEN @ + 1 ELSE @,
                           !.lastError = error]),
         k)

\* One iteration of the retry loop, up to its first await.
loadPDFFrom(w, k) ==
    LET c == w.reader.calls[k]
    IN IF FileOf(c.file).type # "application/pdf"
       THEN attemptFailed(w, k, "Please select a valid PDF file")
       ELSE LET w1 == updateProgress(w,
                         IF c.attempt > 1
                         THEN <<"Loading PDF...", "Attempt",
                                Digits[c.attempt + 1], Digits[MaxRetries + 1]>>
                         ELSE <<"Loading PDF...">>)
            IN SetCall(w1, k, [c EXCEPT !.at = IF c.attempt > 1 THEN "delay"
                                               ELSE "read"])

\* The catch of the retry loop.
attemptFailed(w, k, error) ==
    LET c == w.reader.calls[k]
    IN IF c.attempt = MaxRetries
       THEN [SetCall(showError(w, <<"Failed to load PDF after", "3",
                                    "attempts", error>>), k,
                     [c EXCEPT !.at = "done", !.errors = @ + 1,
                               !.lastError = error])
               EXCEPT !.app.loading = @ - 1]
       ELSE loadPDFFrom(
              SetCall(updateProgress(w, <<"Loading failed, retrying...",
                                          Digits[c.attempt + 1],
                                          Digits[MaxRetries + 1]>>), k,
                      [c EXCEPT !.attempt = @ + 1, !.lastError = error]),
              k)

\* pdfReader.loadPDF(file), up to its first await.
loadPDFCall(w, file) ==
    LET underWay == \E j \in 1..Len(w.reader.calls) :
                        w.reader.calls[j].at # "done"
        w1 == [w EXCEPT !.reader.calls = Append(@, NewCall(file, underWay)),
                        !.app.loading = @ + 1]
    IN loadPDFFrom(w1, Len(w1.reader.calls))

\* processFile(file) with the PDFReader followed await by await.
processFileReading(w, file) ==
    IF file.type # "application/pdf"
    THEN showError(w, <<"Please select a valid PDF file">>)
    ELSE loadPDFCall(clearText([w EXCEPT !.app.hasFile = TRUE]), file)

\* ------------------------------------------------------------------ Init
\* Date.now() when the page is loaded: later than every estimated duration.
Epoch == 100000

\* The application's fields where no application drives the controller.
NoApp ==
    [present |-> FALSE, currentText |-> << >>, currentSentences |-> << >>,
     isTextLoaded |-> FALSE, playDisabled |-> FALSE,
     pauseDisabled |-> FALSE, stopDisabled |-> FALSE,
     progressText |-> << >>, loading |-> 0, hasFile |-> FALSE]

\* new SpeechController() on a platform whose catalog is loaded or not.
Constructed ==
    /\ currentUtterance = 0
    /\ synthVoices \in Catalogs
    /\ voices = loadVoices([voices |-> << >>, settingsVoice |-> NullVoice,
                            synthVoices |-> synthVoices]).voices
    /\ settingsVoice =
          loadVoices([voices |-> << >>, settingsVoice |-> NullVoice,
                      synthVoices |-> synthVoices]).settingsVoice
    /\ isPlaying = FALSE
    /\ isPaused = FALSE
    /\ currentSentenceIndex = 0
    /\ sentences = << >>
    /\ textElement = FALSE
    /\ currentText = << >>
    /\ highlightingTimer = 0
    /\ stateChangeTimeout = 0
    /\ hlCurrent = {}
    /\ hlSpoken = {}
    /\ queue = << >>
    /\ headStarted = FALSE
    /\ synthPaused = FALSE
    /\ boundarySupported \in BOOLEAN
    /\ attached = {}
    /\ events = << >>
    /\ timers = << >>
    /\ session = 0
    /\ stopped = FALSE
    /\ superseded = {}
    /\ settings = [rate |-> Num(10), pitch |-> Num(10), volume |-> Num(10)]
    /\ speechStartTime = 0
    /\ now = Epoch
    /\ pausedFor = 0
    /\ reader = NewReader

\* The controller alone, driven by a caller that only listens.
Init == Constructed /\ app = NoApp

\* The controller inside the application, in a browser whose catalog is
\* there when the page is constructed.
InitApp == Constructed /\ synthVoices = Loaded /\ app = NewApp

\* ----------------------------------------------------------------- tasks
\* Each task is the world its handler leaves, as a function of the present
\* world; the action of the task makes that world the next state.

\* The caller's speak(text, sentences, textElement).
SpeakTask(text, ss, fail, lag) ==
    [speak(World, text, ss, TRUE, fail, lag) EXCEPT
        !.stopped = FALSE,
        !.superseded = IF ~NoText(text) /\ isSpeaking(World)
                          /\ session # 0 /\ currentUtterance = session
                       THEN @ \cup {session} ELSE @]

\* The caller's stop().
StopTask == [stop(World) EXCEPT !.stopped = TRUE]

\* speechSynthesis.onvoiceschanged
VoicesChangedTask(cat) == loadVoices([World EXCEPT !.synthVoices = cat])

\* The backend dispatches its events in the order it raised them: a start,
\* end, error or boundary event follows every event still in flight.
\* The backend begins to speak the head of its queue.
CanStart == queue # << >> /\ ~headStarted /\ ~synthPaused /\ events = << >>

BackendStartTask ==
    LET w1 == [World EXCEPT !.headStarted = TRUE]
    IN IF Head(queue) \in attached
       THEN [onstart(w1) EXCEPT !.pausedFor = 0]
       ELSE w1

\* The backend has spoken the head of its queue to the end.
CanEnd == queue # << >> /\ headStarted /\ ~synthPaused /\ events = << >>

BackendEndTask ==
    LET w1 == [World EXCEPT !.queue = Tail(@), !.headStarted = FALSE]
    IN IF Head(queue) \in attached THEN onend(w1, Head(queue)) ELSE w1

\* The backend fails to synthesise the head of its queue.
CanFail == queue # << >> /\ events = << >>

BackendErrorTask ==
    LET w1 == [World EXCEPT !.queue = Tail(@), !.headStarted = FALSE]
    IN IF Head(queue) \in attached
       THEN onerror(w1, Head(queue), "synthesis-failed")
       ELSE w1

\* The backend reports the character offset it has reached.
CanReport == CanEnd /\ boundarySupported /\ Head(queue) \in attached

BackendBoundaryTask(c) == updateHighlightingBasedOnPosition(World, c)

\* The oldest event in flight (pause, resume, cancellation error) arrives.
DeliverEventTask ==
    LET e  == Head(events)
        w1 == [World EXCEPT !.events = Tail(@)]
    IN IF e.u \notin attached THEN w1
       ELSE IF e.kind = "pause" THEN onpause(w1, e.u)
       ELSE IF e.kind = "resume" THEN onresume(w1, e.u)
       ELSE onerror(w1, e.u, e.reason)

\* A timeout may fire once no older timeout with a delay that is not longer
\* is pending; intervals tick at any time.
CanFire(i) ==
    \/ timers[i].kind = "interval"
    \/ \A j \in 1..(i - 1) :
          timers[j].kind = "interval" \/ timers[j].delay > timers[i].delay

Without(i) == SubSeq(timers, 1, i - 1) \o SubSeq(timers, i + 1, Len(timers))

StateChangeKinds == {"end", "error", "pause", "resume"}

\* The 100 ms timeout of speak() runs initiateSpeech(text).
FireInitiateTask(i, fail) ==
    initiateSpeech([World EXCEPT !.timers = Without(i)], timers[i].sess, fail)

\* The 50 ms timeout of initiateSpeech() runs startSpeechSynthesis().
FireStartTask(i, fail) ==
    startSpeechSynthesis([World EXCEPT !.timers = Without(i)], fail)

\* One of the 50 ms state-change timeouts of the utterance handlers runs.
FireStateChangeTask(i) ==
    LET t  == timers[i]
        w1 == [World EXCEPT !.timers = Without(i)]
    IN CASE t.kind = "end"    -> endTimeout(w1)
         [] t.kind = "error"  -> errorTimeout(w1, t.arg)
         [] t.kind = "pause"  -> pauseTimeout(w1)
         [] t.kind = "resume" -> resumeTimeout(w1)

\* The estimator interval ticks.
FireIntervalTask(target) == intervalTick(World, target)

\* --------------------------------------------------------------- actions
\* What earlier sessions have left behind: their pending timers, their
\* events in flight, their queued utterances.
Leftovers(w) ==
    Cardinality({i \in 1..Len(w.timers) :
                    /\ w.timers[i].sess # w.session
                    /\ w.timers[i].kind # "errorReset"})
    + Cardinality({i \in 1..Len(w.events) : w.events[i].u # w.session})
    + Cardinality({i \in 1..Len(w.queue) : w.queue[i] # w.session})

\* speak() is taken while earlier sessions have left at most max things.
\* A failure or a lagging backend is drawn only where the task meets it.
Meets(text, fail, lag) ==
    LET direct == ~NoText(text) /\ Len(voices) > 0
    IN /\ lag => (direct /\ SynthSpeaking(World))
       /\ fail # "none" => direct
       /\ fail = "speak" => ~lag

SpeakUpTo(max) ==
    \E req \in Requests, fail \in Failures, lag \in BOOLEAN :
        /\ Meets(req[1], fail, lag)
        /\ \E w \in {Normalize(SpeakTask(req[1], req[2], fail, lag))} :
              Leftovers(w) <= max /\ Commit(w)

Speak == SpeakUpTo(MaxStale)

Pause == Apply(pause(World))

Resume == Apply(resume(World))

Stop == Apply(StopTask)

\* The platform's catalog arrives (once, if it was not there at the start).
VoicesChanged ==
    \E cat \in Catalogs \ {<< >>} :
        /\ synthVoices = << >>
        /\ Apply(VoicesChangedTask(cat))

BackendStart == CanStart /\ Apply(BackendStartTask)

BackendEnd == CanEnd /\ Apply(BackendEndTask)

BackendError == CanFail /\ Apply(BackendErrorTask)

BackendBoundary ==
    \E c \in 0..MaxChar : CanReport /\ Apply(BackendBoundaryTask(c))

DeliverEvent == events # << >> /\ Apply(DeliverEventTask)

FireInitiate ==
    \E i \in 1..Len(timers), fail \in Failures :
        /\ timers[i].kind = "initiate" /\ CanFire(i)
        /\ Apply(FireInitiateTask(i, fail))

FireStart ==
    \E i \in 1..Len(timers), fail \in {"none", "speak"} :
        /\ timers[i].kind = "start" /\ CanFire(i)
        /\ Apply(FireStartTask(i, fail))

FireStateChange ==
    \E i \in 1..Len(timers) :
        /\ timers[i].kind \in StateChangeKinds /\ CanFire(i)
        /\ Apply(FireStateChangeTask(i))

FireInterval ==
    \E i \in 1..Len(timers), target \in 0..Len(sentences) :
        /\ timers[i].kind = "interval"
        /\ Apply(FireIntervalTask(target))

Next ==
    \/ Speak
    \/ Pause
    \/ Resume
    \/ Stop
    \/ VoicesChanged
    \/ BackendStart
    \/ BackendEnd
    \/ BackendError
    \/ BackendBoundary
    \/ DeliverEvent
    \/ FireInitiate
    \/ FireStart
    \/ FireStateChange
    \/ FireInterval

Spec == Init /\ [][Next]_vars

\* The same program, with sessions started while an earlier one has left
\* something pending.
SpeakOverlap == SpeakUpTo(MaxOverlap)

NextOverlap ==
    \/ SpeakOverlap
    \/ Pause
    \/ Resume
    \/ Stop
    \/ VoicesChanged
    \/ BackendStart
    \/ BackendEnd
    \/ BackendError
    \/ BackendBoundary
    \/ DeliverEvent
    \/ FireInitiate
    \/ FireStart
    \/ FireStateChange
    \/ FireInterval

SpecOverlap == Init /\ [][NextOverlap]_vars

\* ------------------------------------------------------ the application
\* The tasks of the application: a file is chosen, a load completes or
\* fails, the file is removed, a button that is enabled is clicked.
ProcessFileTask(type) ==
    IF type # "application/pdf" THEN processFile(World, type)
    ELSE [processFile(World, type) EXCEPT !.stopped = TRUE]

LoadDoneTask(text) ==
    onTextExtracted([World EXCEPT !.app.loading = @ - 1], text,
                    processSentences(text))

LoadFailedTask ==
    showError([World EXCEPT !.app.loading = @ - 1],
              <<"Failed to load PDF">>)

ClearFileTask == [clearFile(World) EXCEPT !.stopped = TRUE]

\* play() starts a new speech unless it reports an error or resumes.
PlaySpeaks == app.isTextLoaded /\ app.currentText # << >> /\ ~isPaused

PlayTask(fail, lag) ==
    IF PlaySpeaks
    THEN [play(World, fail, lag) EXCEPT
            !.stopped = FALSE,
            !.superseded = IF isSpeaking(World) /\ session # 0
                              /\ currentUtterance = session
                           THEN @ \cup {session} ELSE @]
    ELSE play(World, fail, lag)

FireErrorResetTask(i) ==
    errorResetTimeout([World EXCEPT !.timers = Without(i)])

ProcessFile ==
    \E type \in FileTypes :
        /\ type = "application/pdf" => app.loading < MaxLoads
        /\ Apply(ProcessFileTask(type))

LoadDoneFrom(texts) ==
    \E text \in texts : app.loading > 0 /\ Apply(LoadDoneTask(text))

LoadDone == LoadDoneFrom(Extracts)

LoadFailed == app.loading > 0 /\ Apply(LoadFailedTask)

ClearFile == app.hasFile /\ Apply(ClearFileTask)

ClickPlay ==
    \E fail \in Failures, lag \in BOOLEAN :
        /\ ~app.playDisabled
        /\ IF PlaySpeaks THEN Meets(app.currentText, fail, lag)
           ELSE fail = "none" /\ ~lag
        /\ \E w \in {Normalize(PlayTask(fail, lag))} :
              Leftovers(w) <= MaxStale /\ Commit(w)

ClickPause == ~app.pauseDisabled /\ Apply(pause(World))

ClickStop == ~app.stopDisabled /\ Apply(StopTask)

FireErrorReset ==
    \E i \in 1..Len(timers) :
        /\ timers[i].kind = "errorReset" /\ CanFire(i)
        /\ Apply(FireErrorResetTask(i))

NextApp ==
    \/ ProcessFile
    \/ LoadDone
    \/ LoadFailed
    \/ ClearFile
    \/ ClickPlay
    \/ ClickPause
    \/ ClickStop
    \/ BackendStart
    \/ BackendEnd
    \/ BackendError
    \/ BackendBoundary
    \/ DeliverEvent
    \/ FireStateChange
    \/ FireInterval
    \/ FireErrorReset

SpecApp == InitApp /\ [][NextApp]_vars

\* ------------------------------------------------- the voice settings
\* A caller that only sets the voice settings, on a platform whose catalog
\* is there at construction or arrives later.
SetRate == \E x \in SettingInputs : Apply(setRate(World, x))

SetPitch == \E x \in SettingInputs : Apply(setPitch(World, x))

SetVolume == \E x \in SettingInputs : Apply(setVolume(World, x))

SetVoiceByName == \E name \in VoiceNames : Apply(setVoiceByName(World, name))

\* The caller hands setVoice() a voice it took from getVoices().
SetVoice ==
    \E i \in 1..Len(voices) : Apply(setVoice(World, voices[i].name))

\* The platform announces a catalog, the first one or a later one.
CatalogChanged == \E cat \in VoiceCatalogs : Apply(VoicesChangedTask(cat))

NextSettings ==
    \/ SetRate
    \/ SetPitch
    \/ SetVolume
    \/ SetVoiceByName
    \/ SetVoice
    \/ CatalogChanged

SpecSettings == Init /\ [][NextSettings]_vars

\* ------------------------------------------------------------ the clock
\* The controller under a clock that advances in steps of ClockStep ms, on
\* a platform whose catalog is loaded.  A timeout or an interval tick runs
\* at any reading of the clock: a step is longer than every delay, and a
\* callback may always run late.
InitClock == Constructed /\ synthVoices = Loaded /\ app = NoApp

\* Rates a caller sets between pause() and resume().
RateInputs == {NumberValue(Num(5)), NumberValue(Num(20))}

\* Time passes; pausedFor adds up the time the backend has been paused
\* since the utterance started.
AdvanceTask ==
    [World EXCEPT !.now = @ + ClockStep,
                  !.pausedFor = IF synthPaused /\ headStarted
                                THEN @ + ClockStep ELSE @]

\* The estimator interval i ticks at the present reading of the clock; the
\* timer remembers that it has ticked.
TickTask(i) ==
    intervalAt([World EXCEPT !.timers[i].arg = "ticked"], timers[i].est, now)

Advance == now < Epoch + MaxTicks * ClockStep /\ Apply(AdvanceTask)

Tick ==
    \E i \in 1..Len(timers) :
        timers[i].kind = "interval" /\ Apply(TickTask(i))

SetRateBetween ==
    \E x \in RateInputs : isPaused /\ Apply(setRate(World, x))

NextClock ==
    \/ Speak
    \/ Pause
    \/ Resume
    \/ Stop
    \/ SetRateBetween
    \/ BackendStart
    \/ BackendEnd
    \/ BackendError
    \/ BackendBoundary
    \/ DeliverEvent
    \/ FireStart
    \/ FireStateChange
    \/ Tick
    \/ Advance

SpecClock == InitClock /\ [][NextClock]_vars

\* ------------------------------------------------------------ the reader
\* The application with its PDFReader followed await by await: files are
\* chosen and removed while earlier loads are still under way.
CallsAt(stage) ==
    {k \in 1..Len(reader.calls) : reader.calls[k].at = stage}

ProcessPdf ==
    \E file \in PdfFiles :
        /\ Len(reader.calls) < MaxCalls
        /\ Apply([processFileReading(World, file) EXCEPT !.stopped = TRUE])

DelayElapsed == \E k \in CallsAt("delay") : Apply(delayElapsed(World, k))

ReadResolved == \E k \in CallsAt("read") : Apply(readResolved(World, k))

ReadRejected ==
    \E k \in CallsAt("read") :
        Apply(attemptFailed(World, k, "Failed to read PDF file"))

DocumentResolved ==
    \E k \in CallsAt("open") : Apply(documentResolved(World, k))

DocumentRejected ==
    \E k \in CallsAt("open") :
        Apply(attemptFailed(World, k, "Invalid PDF structure"))

PageSettled == \E k \in CallsAt("page") : Apply(pageSettled(World, k))

NextReader ==
    \/ ProcessPdf
    \/ ClearFile
    \/ DelayElapsed
    \/ ReadResolved
    \/ ReadRejected
    \/ DocumentResolved
    \/ DocumentRejected
    \/ PageSettled
    \/ FireErrorReset

\* The controller is never asked to speak here.
InitReader == InitApp /\ ~boundarySupported

SpecReader == InitReader /\ [][NextReader]_vars

\* The loadPDF calls that have not returned.
UnderWay == {k \in 1..Len(reader.calls) : reader.calls[k].at # "done"}

\* Every promise a load awaits is settled in the end: the file is read or
\* not, the document is opened or not, a page is extracted or not, the
\* delay between two attempts runs out.
LoadStep ==
    \/ DelayElapsed
    \/ ReadResolved
    \/ ReadRejected
    \/ DocumentResolved
    \/ DocumentRejected
    \/ PageSettled

\* The loads alone: files are handed over, none is removed.
NextLoad ==
    \/ ProcessPdf
    \/ LoadStep

\* WF_vars(LoadStep) written out. A call under way stands at one of the
\* four awaits, each of which has a step of LoadStep that changes the call,
\* so that ENABLED <<LoadStep>>_vars is UnderWay # {}.
LoadFairness == []<>(UnderWay = {}) \/ []<><<LoadStep>>_vars

SpecLoad == InitReader /\ [][NextLoad]_vars /\ LoadFairness

\* --------------------------------------------------------- the segmenter
\* The application loading PDFs of every short text: what extractAllText()
\* hands to processSentences() is trimmed.
SegmentChars == {"a", ".", "!", " "}

RECURSIVE TextsUpTo(_)
TextsUpTo(n) ==
    IF n = 0 THEN {<< >>}
    ELSE LET shorter == TextsUpTo(n - 1)
         IN shorter \cup {Append(t, c) : t \in shorter, c \in SegmentChars}

HelloText ==
    <<"H", "e", "l", "l", "o", ".", " ", "W", "o", "r", "l", "d", "!", " ",
      "T", "e", "s", "t", "?">>

SegmentTexts == {t \in TextsUpTo(MaxLen) : Trim(t) = t} \cup {HelloText}

LoadSegmented == LoadDoneFrom(SegmentTexts)

NextSegment ==
    \/ ProcessFile
    \/ LoadSegmented
    \/ ClearFile
    \/ FireErrorReset

SpecSegment == InitApp /\ [][NextSegment]_vars

TypeOK ==
    /\ isPlaying \in BOOLEAN /\ isPaused \in BOOLEAN
    /\ currentUtterance \in 0..session
    /\ currentSentenceIndex \in 0..2
    /\ Len(timers) <= 12 /\ Len(events) <= 12

\* ------------------------------------------------- the tasks of a state
\* Every task that can run next, with the session that caused it and the
\* world it leaves.
Step(op, cause, w) == [op |-> op, cause |-> cause, w |-> w]

TimersOf(kinds) ==
    {i \in 1..Len(timers) : timers[i].kind \in kinds /\ CanFire(i)}

CommandSteps ==
    {Step("speak", 0, SpeakTask(t, ss, f, lag)) :
        t \in Texts, ss \in SentenceLists, f \in Failures,
        lag \in BOOLEAN}
    \cup {Step("pause", 0, pause(World)), Step("resume", 0, resume(World)),
          Step("stop", 0, StopTask)}
    \cup {Step("voiceschanged", 0, VoicesChangedTask(cat)) :
             cat \in IF synthVoices = << >> THEN Catalogs \ {<< >>} ELSE {}}

BackendSteps ==
    (IF CanStart THEN {Step("evStart", Head(queue), BackendStartTask)}
     ELSE {})
    \cup (IF CanEnd THEN {Step("evEnd", Head(queue), BackendEndTask)}
          ELSE {})
    \cup (IF CanFail THEN {Step("evError", Head(queue), BackendErrorTask)}
          ELSE {})
    \cup (IF CanReport
          THEN {Step("evBoundary", Head(queue), BackendBoundaryTask(c)) :
                   c \in 0..MaxChar}
          ELSE {})
    \cup (IF events # << >>
          THEN {Step("deliver", Head(events).u, DeliverEventTask)}
          ELSE {})

TimerSteps ==
    {Step("initiate", timers[i].sess, FireInitiateTask(i, f)) :
        i \in TimersOf({"initiate"}), f \in Failures}
    \cup {Step("start", timers[i].sess, FireStartTask(i, f)) :
             i \in TimersOf({"start"}), f \in {"none", "speak"}}
    \cup {Step(timers[i].kind, timers[i].sess, FireStateChangeTask(i)) :
             i \in TimersOf(StateChangeKinds)}
    \cup {Step("tick", timers[i].sess, FireIntervalTask(target)) :
             i \in TimersOf({"interval"}), target \in 0..Len(sentences)}

AsyncSteps == BackendSteps \cup TimerSteps

AllSteps == CommandSteps \cup AsyncSteps

Callbacks(w) == {w.fired[i].cb : i \in 1..Len(w.fired)}

Called(w, method) == \E i \in 1..Len(w.calls) : w.calls[i] = method

Times(w, cb) == Cardinality({i \in 1..Len(w.fired) : w.fired[i].cb = cb})

\* ----------------------------------------------------------------- claims
\* The state-change timeouts of the current utterance that can run next.
CurrentTimeouts(kind) ==
    {i \in TimersOf({kind}) : timers[i].sess = currentUtterance}

\* A task has left the session settled: not playing, not paused, no
\* highlight, no highlight timer held.
Settled(w) ==
    /\ ~w.isPlaying /\ ~w.isPaused
    /\ w.hlCurrent = {} /\ w.hlSpoken = {}
    /\ w.highlightingTimer = 0

\* The handler of a backend event has only scheduled the state change:
\* world w has one more timer than the state, the youngest, of this kind,
\* for utterance u, 50 ms from now, and stateChangeTimeout holds it.
Scheduled(w, kind, u) ==
    /\ Len(w.timers) = Len(timers) + 1
    /\ LET t == w.timers[Len(w.timers)]
       IN /\ t.kind = kind /\ t.sess = u /\ t.delay = StateChangeDelay
          /\ w.stateChangeTimeout = t.id
    /\ w.fired = << >>
    /\ w.isPlaying = isPlaying /\ w.isPaused = isPaused

\* C1: from every reachable state stop() leaves isPlaying = FALSE,
\* isPaused = FALSE and currentSentenceIndex = 0, and a second stop() in the
\* state the first one left changes nothing and fires no callback (all it
\* may do is repeat cancel() on a backend that still reads busy).
C1_StopResetsAndIsIdempotent ==
    LET w1 == [stop(World) EXCEPT !.fired = << >>, !.calls = << >>]
        w2 == stop(w1)
    IN /\ ~w1.isPlaying /\ ~w1.isPaused /\ w1.currentSentenceIndex = 0
       /\ w2.fired = << >>
       /\ \A i \in 1..Len(w2.calls) : w2.calls[i] = "cancel"
       /\ [w2 EXCEPT !.calls = << >>] = w1

\* stop() has run while the backend was paused and timers were pending.
C1_Witness ==
    /\ stopped /\ synthPaused /\ timers # << >>
    /\ ~isPlaying /\ ~isPaused /\ currentSentenceIndex = 0

\* C2: after stop() has returned and until the next speak() call, no
\* caller-facing callback fires, no utterance is submitted to the backend
\* and isPlaying / isPaused stay FALSE, whatever timers were pending.
C2_QuietAfterStop ==
    stopped =>
        /\ ~isPlaying /\ ~isPaused /\ queue = << >>
        /\ \A st \in AsyncSteps :
              st.w.fired = << >> /\ ~Called(st.w, "speak")

\* C3: once speak() has replaced a session that was Speaking and the new
\* session has started, no backend event and no timer of the replaced
\* session invokes a callback or changes isPlaying, isPaused, the current
\* sentence or the highlight.
C3_NoEventOfSupersededSession ==
    \A st \in AsyncSteps :
        (st.cause \in superseded /\ st.cause # session
            /\ currentUtterance = session /\ isPlaying)
        => /\ st.w.fired = << >>
           /\ st.w.isPlaying = isPlaying /\ st.w.isPaused = isPaused
           /\ st.w.currentSentenceIndex = currentSentenceIndex
           /\ st.w.hlCurrent = hlCurrent /\ st.w.hlSpoken = hlSpoken

\* C4: in every reachable state at most one request of the controller is
\* live on the backend with the controller's handlers attached.
C4_AtMostOneLiveUtterance ==
    Cardinality({i \in 1..Len(queue) : queue[i] \in attached}) <= 1

\* C5: pause() calls the backend's pause() exactly when the controller is
\* Speaking and the backend is speaking, and otherwise does nothing; the
\* call leaves isPlaying, isPaused and currentSentenceIndex as they are and
\* fires no callback; isPaused turns TRUE only in the state-change timeout
\* that the backend's pause acknowledgment scheduled.
C5_PauseRequestsOnly ==
    /\ LET w == pause(World)
       IN /\ Called(w, "pause") <=>
                (isPlaying /\ ~isPaused /\ SynthSpeaking(World))
          /\ ~Called(w, "pause") => w = World
          /\ w.isPlaying = isPlaying /\ w.isPaused = isPaused
          /\ w.currentSentenceIndex = currentSentenceIndex
          /\ w.fired = << >>
    /\ \A st \in AllSteps :
          (~isPaused /\ st.w.isPaused) => st.op = "pause"

\* pause() has asked the backend to pause and the acknowledgment is still
\* in flight: the controller is not yet Paused.
C5_Witness ==
    /\ isPlaying /\ ~isPaused /\ synthPaused
    /\ \E i \in 1..Len(events) : events[i].kind = "pause"

\* C6: resume() calls the backend's resume() exactly when the controller is
\* flagged paused and the backend is paused, and otherwise does nothing;
\* the call leaves isPlaying and isPaused as they are and fires no
\* callback; a Paused controller returns to Speaking, without a new
\* session being started, only in the state-change timeout that the
\* backend's resume acknowledgment scheduled.
C6_ResumeRequestsOnly ==
    /\ LET w == resume(World)
       IN /\ Called(w, "resume") <=> (isPaused /\ synthPaused)
          /\ ~Called(w, "resume") => w = World
          /\ w.isPlaying = isPlaying /\ w.isPaused = isPaused
          /\ w.fired = << >>
    /\ \A st \in AllSteps :
          (isPlaying /\ isPaused /\ isSpeaking(st.w)
             /\ st.op \notin {"speak", "initiate", "start"})
          => st.op = "resume"

C8_ErrorClearsSession ==
    /\ (CanFail /\ Head(queue) \in attached /\ Head(queue) = currentUtterance
           /\ isPlaying)
        => Scheduled(BackendErrorTask, "error", currentUtterance)
    /\ \A i \in CurrentTimeouts("error") :
          LET w == FireStateChangeTask(i)
          IN /\ Settled(w)
             /\ w.fired = << [cb |-> "onError",
                              msg |-> <<"Speech error", timers[i].arg>>,
                              idx |-> 0] >>
    /\ \A st \in AsyncSteps :
          \A i \in 1..Len(timers) :
              (timers[i].kind = "error" /\ timers[i].sess = currentUtterance)
              => \/ st.op = "error"
                 \/ \E j \in 1..Len(st.w.timers) : st.w.timers[j] = timers[i]

\* C9: every failure leaves the controller idle (a speak() with no text,
\* a task that reports an exception while it starts the synthesis, the
\* state change of a backend error), and a speak() with text that meets no
\* failure reaches Speaking: at once, or through the delayed starts it
\* schedules for its session.
C9_NoFailureIsTerminal ==
    /\ \A st \in CommandSteps \cup TimerSteps :
          (st.op \in {"speak", "initiate", "start"}
              /\ "onError" \in Callbacks(st.w))
          => ~st.w.isPlaying /\ ~st.w.isPaused
    /\ \A i \in TimersOf({"error"}) :
          LET w == FireStateChangeTask(i) IN ~w.isPlaying /\ ~w.isPaused
    /\ \A ss \in SentenceLists, lag \in BOOLEAN :
          LET w == SpeakTask(TextOk, ss, "none", lag)
          IN \/ isSpeaking(w)
             \/ \E j \in 1..Len(w.timers) :
                    /\ w.timers[j].kind \in {"initiate", "start"}
                    /\ w.timers[j].sess = w.session
    /\ \A i \in TimersOf({"initiate"}) :
          timers[i].sess = session
          => LET w == FireInitiateTask(i, "none")
             IN \/ isSpeaking(w)
                \/ \E j \in 1..Len(w.timers) :
                       /\ w.timers[j].kind = "start"
                       /\ w.timers[j].sess = w.session
    /\ \A i \in TimersOf({"start"}) :
          (timers[i].sess = session /\ currentUtterance = session)
          => isSpeaking(FireStartTask(i, "none"))

\* C10: speak() with empty or whitespace-only text invokes the error
\* callback (once, with the message of the thrown error), creates and
\* submits no utterance, schedules no timer and leaves the controller not
\* playing.
C10_NoTextRejected ==
    \A t \in {x \in Texts : \A i \in 1..Len(x) : x[i] = " "},
       ss \in SentenceLists :
        LET w == speak(World, t, ss, TRUE, "none", FALSE)
        IN /\ w.fired = << [cb |-> "onError",
                            msg |-> <<"Error starting speech",
                                      "No text provided to speak">>,
                            idx |-> 0] >>
           /\ ~Called(w, "speak")
           /\ w.currentUtterance = 0 /\ w.attached \subseteq attached
           /\ w.queue = << >>
           /\ \A i \in 1..Len(w.timers) :
                 \E j \in 1..Len(timers) : w.timers[i] = timers[j]
           /\ ~w.isPlaying

\* speak() has been called with whitespace-only text while timers of an
\* earlier speak() were pending.
C10_Witness ==
    /\ currentText = TextBlank /\ ~isPlaying /\ currentUtterance = 0
    /\ timers # << >>

\* C11: speak() called with empty or whitespace-only text while a session
\* is Speaking or Paused leaves that session untouched: isPlaying, isPaused,
\* currentSentenceIndex, the sentences, the current utterance, the highlight
\* markers and the backend's queue are what they were before the call.
C11_InputErrorChangesNothing ==
    \A t \in {x \in Texts : \A i \in 1..Len(x) : x[i] = " "} :
        (isPlaying /\ currentUtterance # 0)
        => LET w == speak(World, t, sentences, textElement, "none", FALSE)
           IN /\ w.isPlaying = isPlaying /\ w.isPaused = isPaused
              /\ w.currentSentenceIndex = currentSentenceIndex
              /\ w.sentences = sentences
              /\ w.currentUtterance = currentUtterance
              /\ w.hlCurrent = hlCurrent /\ w.hlSpoken = hlSpoken
              /\ w.queue = queue /\ w.headStarted = headStarted

\* The message processFile() shows for a file that is no PDF.
NotAPdfMessage == <<"Error", "Please select a valid PDF file">>

\* C12: from every reachable state of the application, processFile(file)
\* with a file whose type is not application/pdf shows the error message
\* within the call and changes nothing else: the loaded text, the
\* sentences, isTextLoaded, the buttons, the controller and the backend
\* are as before, no controller method is called, no load is started; all
\* that is added is the 5 s timeout that resets the progress line.
C12_NonPdfRejected ==
    \A type \in FileTypes \ {"application/pdf"} :
        LET w == processFile(World, type)
        IN /\ w.app.progressText = NotAPdfMessage
           /\ w.app.loading = app.loading
           /\ w.calls = << >> /\ w.fired = << >>
           /\ [w EXCEPT !.app.progressText = app.progressText,
                        !.timers = timers] = World
           /\ \A i \in 1..Len(w.timers) :
                 \/ i <= Len(timers) /\ w.timers[i] = timers[i]
                 \/ i = Len(timers) + 1 /\ w.timers[i].kind = "errorReset"

\* A file that is no PDF was chosen while the loaded text was being
\* spoken: the message is shown and the playback goes on.
C12_Witness ==
    /\ app.progressText = NotAPdfMessage
    /\ app.isTextLoaded /\ app.currentText = TextOk
    /\ isPlaying /\ ~isPaused /\ queue # << >> /\ headStarted

\* The sentences (0-based) whose inclusive span holds offset c.
Containing(c) ==
    {i \in 0..Len(sentences) - 1 :
        sentences[i + 1].startChar <= c /\ c <= sentences[i + 1].endChar}

\* C15: in precise mode, while the session is playing, a position update with
\* offset c makes the least sentence whose span [startChar, endChar] holds c
\* the current one (so c = endChar of a sentence resolves to that sentence),
\* highlighting it if it was not current; an offset in no span changes
\* nothing and invokes no callback.
C15_PositionResolvesToFirstSpan ==
    \A c \in 0..MaxChar :
        (boundarySupported /\ isPlaying /\ sentences # << >>)
        => LET w == updateHighlightingBasedOnPosition(World, c)
           IN IF Containing(c) = {} THEN w = World
              ELSE /\ w.currentSentenceIndex \in Containing(c)
                   /\ \A j \in Containing(c) : w.currentSentenceIndex <= j
                   /\ w.currentSentenceIndex # currentSentenceIndex
                      => w.hlCurrent = {w.currentSentenceIndex}
                   /\ \A i \in 0..Len(sentences) - 1 :
                         c = sentences[i + 1].endChar
                         => w.currentSentenceIndex = i
                   /\ w.currentSentenceIndex = currentSentenceIndex
                      => w = World

\* A position update has moved the cursor of a playing session to the
\* second sentence.
C15_Witness ==
    /\ boundarySupported /\ isPlaying /\ ~isPaused
    /\ sentences = TwoSentences
    /\ currentSentenceIndex = 1 /\ hlCurrent = {1}

\* C16: once stop() has run and no speak() has followed, a position update
\* the backend delivers has no observable effect: currentSentenceIndex
\* stays 0, no highlight is set and no callback is invoked.
C16_BoundaryAfterStopIgnored ==
    \A st \in BackendSteps :
        (stopped /\ st.op = "evBoundary")
        => /\ st.w.currentSentenceIndex = 0
           /\ st.w.hlCurrent = {} /\ st.w.hlSpoken = {}
           /\ st.w.fired = << >>

\* A stored setting is a number between lo and hi tenths.
Within(x, lo, hi) == ~x.nan /\ lo <= x.v /\ x.v <= hi

\* C18: whatever setRate, setPitch and setVolume were called with, the
\* stored rate and pitch are numbers in [0.5, 2.0], the stored volume is a
\* number in [0.0, 1.0]; a number out of range is stored as the nearest
\* bound and a number in range as it is.
C18_SettingsStayInRange ==
    /\ Within(settings.rate, 5, 20)
    /\ Within(settings.pitch, 5, 20)
    /\ Within(settings.volume, 0, 10)
    /\ \A n \in {-10, 1, 5, 7, 10, 15, 20, 30} :
          LET x == NumberValue(Num(n))
          IN /\ setRate(World, x).settings.rate
                   = Num(IF n < 5 THEN 5 ELSE IF n > 20 THEN 20 ELSE n)
             /\ setPitch(World, x).settings.pitch
                   = Num(IF n < 5 THEN 5 ELSE IF n > 20 THEN 20 ELSE n)
             /\ setVolume(World, x).settings.volume
                   = Num(IF n < 0 THEN 0 ELSE IF n > 10 THEN 10 ELSE n)

\* C19: setVoiceByName(name) changes nothing when no voice of the loaded
\* catalog (this.voices) has that name; when one has, it becomes the
\* selected voice and nothing else changes.
C19_VoiceByNameOnlyIfLoaded ==
    \A name \in VoiceNames :
        LET w == setVoiceByName(World, name)
        IN IF \E i \in 1..Len(voices) : voices[i].name = name
           THEN w = [World EXCEPT !.settingsVoice = name]
           ELSE w = World

\* The catalog is loaded, its default choice would be the Google voice, and
\* setVoiceByName has selected another voice of the catalog.
C19_Witness ==
    /\ \E i \in 1..Len(voices) : voices[i].name = "Samantha"
    /\ \E i \in 1..Len(voices) : voices[i].google
    /\ settingsVoice = "Samantha"

\* The estimator intervals that can tick, and the world each tick leaves at
\* the present reading of the clock.
ClockTicks ==
    {TickTask(i) : i \in {j \in 1..Len(timers) : timers[j].kind = "interval"}}

\* The worlds a position update can leave.
PositionUpdates ==
    {st.w : st \in {x \in BackendSteps : x.op = "evBoundary"}}

\* C13: in every reachable state, whatever the caller has done so far
\* (pause, resume, setRate), no position update and no estimator tick
\* lowers currentSentenceIndex: either leaves it or moves it to a larger
\* index.
C13_IndexNeverDecreases ==
    \A w \in PositionUpdates \cup ClockTicks :
        w.currentSentenceIndex >= currentSentenceIndex

\* The session was paused for pausedFor ms, has been resumed, and the
\* estimator the resume timeout started is about to tick for the first
\* time.
FirstTicksAfterResume ==
    {i \in 1..Len(timers) :
        /\ timers[i].kind = "interval" /\ timers[i].arg = ""
        /\ timers[i].id = highlightingTimer /\ ~timers[i].est.nan
        /\ ~boundarySupported
        /\ isPlaying /\ ~isPaused /\ ~synthPaused /\ headStarted
        /\ events = << >> /\ TimersOf(StateChangeKinds) = {}
        /\ speechStartTime > 0 /\ pausedFor > 0}

\* C14: in estimated mode the first tick after a resume computes the index
\* it would compute if the pause had lasted no time, that is with an elapsed
\* time that leaves out the pausedFor ms the session was paused.
C14_PausedTimeExcluded ==
    \A i \in FirstTicksAfterResume :
        TickTask(i).currentSentenceIndex
            = intervalAt([World EXCEPT !.timers[i].arg = "ticked"],
                         timers[i].est, now - pausedFor).currentSentenceIndex

\* Nothing is under way: no PDF is being loaded, every timeout has fired,
\* every backend event has been delivered and the backend has started what
\* it was given.
Quiet ==
    /\ app.loading = 0
    /\ \A i \in 1..Len(timers) : timers[i].kind = "interval"
    /\ events = << >>
    /\ queue # << >> => headStarted

\* C17: whenever nothing is under way, the buttons of the application match
\* the controller: Play is enabled if text is loaded and the controller is
\* not speaking, Pause is enabled exactly when it is speaking, Stop exactly
\* when it is speaking or paused.
C17_ButtonsMatchController ==
    (app.present /\ Quiet)
    => /\ (app.isTextLoaded /\ ~isSpeaking(World)) => ~app.playDisabled
       /\ ~app.pauseDisabled <=> isSpeaking(World)
       /\ ~app.stopDisabled <=> (isSpeaking(World) \/ isPaused)

\* C20: the sentences the segmenter has produced for the loaded text are
\* chained: ids count from 0, the first sentence starts at 0, every
\* sentence ends at startChar + length of its text, and every next sentence
\* starts one past the end of the one before, so the spans increase and do
\* not overlap; "Hello. World! Test?" gives Hello, World, Test.
C20_SpansChained ==
    LET ss == app.currentSentences
    IN /\ ss # << >> => ss[1].startChar = 0
       /\ \A i \in 1..Len(ss) :
             /\ ss[i].id = i - 1
             /\ ss[i].text # << >>
             /\ ss[i].endChar = ss[i].startChar + Len(ss[i].text)
       /\ \A i \in 1..Len(ss) - 1 :
             /\ ss[i + 1].startChar = ss[i].endChar + 1
             /\ ss[i].startChar < ss[i + 1].startChar
             /\ ss[i].endChar < ss[i + 1].startChar
       /\ app.currentText = HelloText
          => /\ Len(ss) = 3
             /\ ss[1].text = <<"H", "e", "l", "l", "o">>
             /\ ss[2].text = <<"W", "o", "r", "l", "d">>
             /\ ss[3].text = <<"T", "e", "s", "t">>

\* "Hello. World! Test?" has been loaded and segmented into three
\* sentences with the spans 0-5, 6-11 and 12-16.
C20_Witness ==
    /\ app.isTextLoaded /\ app.currentText = HelloText
    /\ Len(app.currentSentences) = 3
    /\ app.currentSentences[2].startChar = 6
    /\ app.currentSentences[3].endChar = 16

\* The sentence texts joined with single spaces.
RECURSIVE JoinWithSpaces(_)
JoinWithSpaces(ss) ==
    IF ss = << >> THEN << >>
    ELSE IF Len(ss) = 1 THEN ss[1].text
    ELSE ss[1].text \o <<" ">> \o JoinWithSpaces(Tail(ss))

\* C21: whenever the loaded text has given at least one sentence, the
\* sentence texts joined with single spaces are as long as the endChar of
\* the last sentence.
C21_JoinedLengthIsLastEnd ==
    LET ss == app.currentSentences
    IN ss # << >> => Len(JoinWithSpaces(ss)) = ss[Len(ss)].endChar

\* "a.a" has been loaded: two sentences, "a a" has 3 characters and the
\* last sentence ends at 3.
C21_Witness ==
    /\ app.isTextLoaded /\ app.currentText = <<"a", ".", "a">>
    /\ Len(app.currentSentences) = 2
    /\ app.currentSentences[2].endChar = 3

\* A list of sentences as the segmenter may return it: every text is not
\* empty, has no white space at either end and holds no delimiter, and
\* the ids are 0, 1, 2, ... in order.
WellFormed(ss) ==
    \A i \in 1..Len(ss) :
        /\ ss[i].id = i - 1
        /\ ss[i].text # << >>
        /\ ~IsSpace(ss[i].text[1])
        /\ ~IsSpace(ss[i].text[Len(ss[i].text)])
        /\ \A k \in 1..Len(ss[i].text) :
              ss[i].text[k] \notin {".", "!", "?"}

\* A text with nothing but white space and delimiters.
NoWords(t) == \A k \in 1..Len(t) : t[k] \in {".", "!", "?", " ", "\n"}

\* C22: the sentences the application holds, and the sentences the
\* segmenter returns for every text of up to MaxLen characters (trimmed or
\* not), are well formed; a text that is empty or made only of white space
\* and delimiters gives the empty list.
C22_SentencesWellFormed ==
    /\ WellFormed(app.currentSentences)
    /\ \A t \in TextsUpTo(MaxLen) :
          /\ WellFormed(processSentences(t))
          /\ NoWords(t) => processSentences(t) = << >>
    /\ (app.isTextLoaded /\ NoWords(app.currentText))
       => app.currentSentences = << >>

\* "!a" has been loaded: the piece before the delimiter is empty and gets
\* no id, the sentence "a" has id 0.
C22_Witness ==
    /\ app.isTextLoaded /\ app.currentText = <<"!", "a">>
    /\ Len(app.currentSentences) = 1
    /\ app.currentSentences[1].id = 0
    /\ app.currentSentences[1].text = <<"a">>

\* C23: for every sentence of the loaded text, the characters of the text
\* at the offsets startChar up to endChar (exclusive) are the text of the
\* sentence.
C23_SpansCutTheText ==
    \A i \in 1..Len(app.currentSentences) :
        LET s == app.currentSentences[i]
        IN /\ s.endChar <= Len(app.currentText)
           /\ SubSeq(app.currentText, s.startChar + 1, s.endChar) = s.text

\* C24: where the utterances support boundary events, the estimator
\* interval is never started: no interval timer exists at any point of a
\* session, pause and resume included.
C24_NoEstimatorInPreciseMode ==
    boundarySupported
    => /\ highlightingTimer = 0
       /\ \A i \in 1..Len(timers) : timers[i].kind # "interval"

\* The current utterance is being spoken with the controller's handlers
\* attached.
SpeakingCurrent ==
    /\ currentUtterance # 0 /\ currentUtterance \in attached
    /\ queue # << >> /\ Head(queue) = currentUtterance /\ headStarted
    /\ isPlaying

\* What an acknowledgment of the given kind does to the controller: the
\* handler of the event, then the timeout the handler has armed.
AckEffect(kind) ==
    LET w1 == IF kind = "pause" THEN onpause(World, currentUtterance)
              ELSE onresume(World, currentUtterance)
        w2 == [w1 EXCEPT !.timers = SubSeq(@, 1, Len(@) - 1)]
    IN IF kind = "pause" THEN pauseTimeout(w2) ELSE resumeTimeout(w2)

\* The acknowledgment was a no-op: nothing of the session has changed, no
\* timer was added, no callback was invoked.
NoOp(w) ==
    /\ w.fired = << >>
    /\ w.timers = timers
    /\ w.highlightingTimer = highlightingTimer
    /\ w.isPlaying = isPlaying /\ w.isPaused = isPaused
    /\ w.currentSentenceIndex = currentSentenceIndex
    /\ w.hlCurrent = hlCurrent /\ w.hlSpoken = hlSpoken

\* C25: while the current utterance is being spoken, a resume
\* acknowledgment that arrives when the controller is not paused is a
\* no-op, and so is a pause acknowledgment that arrives when it is paused.
C25_StrayAcksAreNoOps ==
    SpeakingCurrent
    => /\ ~isPaused => NoOp(AckEffect("resume"))
       /\ isPaused => NoOp(AckEffect("pause"))

\* C26: the start callback is not invoked a second time in a session that
\* is already Speaking: when the backend reports the start of the current
\* utterance while the controller is playing and not paused, onStart is not
\* invoked.
C26_StartNotifiedOnce ==
    \A st \in BackendSteps :
        (st.op = "evStart" /\ st.cause = currentUtterance
            /\ currentUtterance = session /\ isPlaying /\ ~isPaused)
        => "onStart" \notin Callbacks(st.w)

\* The estimator intervals of a session in estimated mode that is playing
\* and not paused, its utterance started.
LiveEstimators ==
    {i \in 1..Len(timers) :
        /\ timers[i].kind = "interval" /\ timers[i].id = highlightingTimer
        /\ ~timers[i].est.nan
        /\ ~boundarySupported /\ sentences # << >>
        /\ isPlaying /\ ~isPaused /\ headStarted /\ speechStartTime > 0}

\* floor(progress * sentenceCount) clamped to [0, sentenceCount - 1].
ClampedTarget(i) ==
    LET raw == TargetSentenceIndex(World, timers[i].est, now)
    IN IF raw > Len(sentences) - 1 THEN Len(sentences) - 1
       ELSE IF raw < 0 THEN 0 ELSE raw

\* C27: in estimated mode every tick while playing and not paused leaves
\* the cursor at floor(progress * sentenceCount) clamped to
\* [0, sentenceCount - 1], highlighting the sentence and reporting progress
\* if that index differs from the current one; with 4 sentences and half of
\* the estimated duration elapsed the target is 2.
C27_TickSetsClampedTarget ==
    /\ \A i \in LiveEstimators :
          LET w == TickTask(i)
          IN /\ w.currentSentenceIndex = ClampedTarget(i)
             /\ ClampedTarget(i) # currentSentenceIndex
                => /\ w.hlCurrent = {ClampedTarget(i)}
                   /\ "onProgress" \in Callbacks(w)
    /\ LET w4 == [World EXCEPT !.sentences = TwoSentences \o TwoSentences,
                               !.currentText = TextOk,
                               !.settings.rate = Num(10),
                               !.speechStartTime = now - 400]
       IN TargetSentenceIndex(w4, EstimatedDuration(w4), now) = 2

\* The steps by which a session moves its highlight: position updates and
\* estimator ticks that have changed the markers.
HighlightChanges ==
    {st \in AsyncSteps :
        /\ st.op \in {"evBoundary", "tick"}
        /\ st.w.hlCurrent # hlCurrent \/ st.w.hlSpoken # hlSpoken
        /\ st.w.isPlaying}

\* C28: after every highlight change within a session the sentence at
\* currentSentenceIndex, and no other, is marked active; the sentences
\* before it, and no others, are marked spoken; progress is reported for
\* that index; and a position update takes the spoken mark from no
\* sentence that had it.
C28_MarkersFollowTheCursor ==
    \A st \in HighlightChanges :
        LET i == st.w.currentSentenceIndex
        IN /\ st.w.hlCurrent = {i}
           /\ st.w.hlSpoken = 0..(i - 1)
           /\ \E k \in 1..Len(st.w.fired) :
                 st.w.fired[k].cb = "onProgress" /\ st.w.fired[k].idx = i
           /\ st.op = "evBoundary" => hlSpoken \subseteq st.w.hlSpoken

\* C29: whenever the controller is not playing, no sentence is marked
\* active or spoken, highlightingTimer holds no timer and no estimator
\* interval is running.
C29_IdleHasNoHighlight ==
    ~isPlaying
    => /\ hlCurrent = {} /\ hlSpoken = {}
       /\ highlightingTimer = 0
       /\ \A i \in 1..Len(timers) : timers[i].kind # "interval"

\* The estimator intervals among the timers of w.
IntervalIds(w) ==
    {w.timers[i].id : i \in {k \in 1..Len(w.timers) :
                                w.timers[k].kind = "interval"}}

\* C30: in a session with zero sentences the synchronizer is inert: no
\* task starts an estimator interval or sets highlightingTimer, no task
\* other than the reset in speak() and stop() changes currentSentenceIndex,
\* and no task invokes onSentenceStart or onProgress; the start event of
\* the current utterance still sets isPlaying and invokes onStart, and its
\* end timeout still clears isPlaying and invokes onEnd.
C30_InertWithoutSentences ==
    /\ sentences = << >> => highlightingTimer = 0
    /\ \A st \in AllSteps :
          st.w.sentences = << >>
          => /\ IntervalIds(st.w) \subseteq IntervalIds(World)
             /\ st.w.highlightingTimer = 0
             /\ Callbacks(st.w) \cap {"onSentenceStart", "onProgress"} = {}
             /\ st.op \notin {"speak", "stop"}
                => st.w.currentSentenceIndex = currentSentenceIndex
    /\ \A st \in AsyncSteps :
          (sentences = << >> /\ st.cause = session /\ session # 0)
          => /\ (st.op = "evStart" /\ st.cause \in attached)
                => st.w.isPlaying /\ "onStart" \in Callbacks(st.w)
             /\ st.op = "end"
                => ~st.w.isPlaying /\ "onEnd" \in Callbacks(st.w)

\* A session with a text and zero sentences was started and paused, its
\* resume timeout is about to fire, and no estimator interval exists.
C30_Witness ==
    /\ sentences = << >> /\ currentText = TextOk
    /\ SpeakingCurrent /\ isPaused
    /\ \E i \in TimersOf({"resume"}) : timers[i].sess = session
    /\ IntervalIds(World) = {}

\* The English voices of a platform catalog, in the catalog's order.
English(cat) == SelectSeq(cat, LAMBDA v : v.lang = "en")

\* The first voice of vs that is marked by field f, if any.
FirstMarked(vs, f) ==
    LET marked == {i \in 1..Len(vs) : vs[i][f]}
    IN IF marked = {} THEN 0
       ELSE CHOOSE i \in marked : \A j \in marked : i <= j

\* The default choice among the loaded voices vs.
PreferredVoice(vs) ==
    IF vs = << >> THEN NullVoice
    ELSE IF FirstMarked(vs, "google") # 0
    THEN vs[FirstMarked(vs, "google")].name
    ELSE IF FirstMarked(vs, "default") # 0
    THEN vs[FirstMarked(vs, "default")].name
    ELSE vs[1].name

C40_RefreshKeepsSelection ==
    settingsVoice # NullVoice
    => \A cat \in VoiceCatalogs :
          LET w == VoicesChangedTask(cat)
          IN /\ w.settingsVoice = settingsVoice
             /\ w.settings = settings
             /\ w = [World EXCEPT !.synthVoices = cat,
                                  !.voices = English(cat)]

\* The caller has selected a voice, and the platform has since announced a
\* catalog that does not hold it and whose default choice is another voice.
C40_Witness ==
    /\ settingsVoice = "Samantha"
    /\ synthVoices = <<DeVoice, AlVoice, DfVoice>>
    /\ settings.rate # Num(10)

\* C34: in every reachable state a controller that is flagged paused is
\* playing.
C34_PausedImpliesPlaying == isPaused => isPlaying

\* C35: at most one estimator interval exists, and it is the one held in
\* highlightingTimer.
C35_OneIntervalHeld ==
    /\ Cardinality(IntervalIds(World)) <= 1
    /\ \A id \in IntervalIds(World) : highlightingTimer = id

\* C36: whenever text is loaded, play() either requests a resume of a
\* backend that is paused or starts a new session with speak(): resume()
\* is reached only where the backend honours it.
C36_PlayMakesProgress ==
    (app.present /\ app.isTextLoaded /\ app.currentText # << >>)
    => LET w == play(World, "none", FALSE)
       IN IF isPaused THEN synthPaused /\ Called(w, "resume")
          ELSE w.session # session

\* The loadPDF calls that have returned.
Returned == {k \in 1..Len(reader.calls) : reader.calls[k].at = "done"}

\* The texts of the pages ns of a file that are not empty, in this order.
PageTexts(name, ns) ==
    LET full == SelectSeq(ns, LAMBDA n : Trim(PagesOf(name)[n].text) # << >>)
    IN [i \in 1..Len(full) |-> PagesOf(name)[full[i]].text]

\* C32: a load that has delivered text has delivered the texts of exactly
\* the pages of its file whose extraction succeeded and which were not
\* empty, joined in page order, and has reported no error.
C32_PagesThatFailAreSkipped ==
    \A k \in Returned :
        LET c == reader.calls[k]
        IN c.extracted = 1
           => /\ c.text = Trim(JoinPages(PageTexts(c.file, c.okPages)))
              /\ c.errors = 0

\* The text a file yields when it is loaded alone: its pages that can be
\* extracted and are not empty, joined in page order.
TextOf(name) ==
    LET good == SelectSeq(PagesOf(name),
                          LAMBDA p : p.ok /\ Trim(p.text) # << >>)
    IN Trim(JoinPages([i \in 1..Len(good) |-> good[i].text]))

\* C38: when a file was handed over while the load of an earlier file was
\* under way and every load has returned, the application holds the text
\* and the sentences of the later file; and every text is delivered with
\* the sentences of this text.
C38_LatestFileWins ==
    /\ \A k \in Returned :
          LET c == reader.calls[k]
          IN c.extracted = 1 => c.sentences = processSentences(c.text)
    /\ \A k \in Returned :
          LET c == reader.calls[k]
          IN (/\ k = Len(reader.calls) /\ c.overlaps /\ c.extracted = 1
              /\ Returned = 1..Len(reader.calls) /\ app.hasFile)
             => /\ app.currentText = TextOf(c.file)
                /\ app.currentSentences = processSentences(TextOf(c.file))

\* C33: a load in which the extraction of every page failed reports an
\* error and does not deliver a text; a load in which the extraction of
\* some page succeeded reports no error for the pages that failed.
C33_AllPagesFailedIsAnError ==
    \A k \in Returned :
        LET c == reader.calls[k]
        IN /\ (c.numPages > 0 /\ c.okPages = << >>)
              => c.errors = 1 /\ c.extracted = 0
           /\ c.okPages # << >> => c.errors = 0

\* What a call has reported so far is in order: it is at one of its
\* MaxRetries attempts, it has reported nothing before it returns, and when
\* it has returned it has invoked either onTextExtracted once or, after its
\* last attempt, onError once.
OneOutcome(c) ==
    /\ c.attempt \in 1..MaxRetries
    /\ c.at # "done" => c.extracted = 0 /\ c.errors = 0
    /\ c.at = "done" => c.extracted + c.errors = 1
    /\ c.errors = 1 => c.attempt = MaxRetries

\* C37: every loadPDF call makes at most MaxRetries attempts and reports
\* exactly one outcome; a call that has not returned waits for a promise
\* or for the delay, and every call returns in the end.
C37_LoadEndsWithOneOutcome ==
    /\ [](\A k \in 1..Len(reader.calls) : OneOutcome(reader.calls[k]))
    /\ [](\A k \in UnderWay :
             reader.calls[k].at \in {"delay", "read", "open", "page"})
    /\ <>[](UnderWay = {})

\* A call has returned with an error after its third attempt, and another
\* has returned with a text after a second attempt.
C37_Witness ==
    \E j, k \in Returned :
        /\ reader.calls[j].errors = 1 /\ reader.calls[j].attempt = MaxRetries
        /\ reader.calls[k].extracted = 1 /\ reader.calls[k].attempt = 2

\* C39: while no file is held (none was handed over since the page was
\* opened or since clearFile()), no text is loaded, the text is empty and the
\* controls, shown and hidden together with isTextLoaded, are hidden.
C39_ClearedStaysCleared ==
    ~app.hasFile => /\ ~app.isTextLoaded
                    /\ app.currentText = << >>
                    /\ app.currentSentences = << >>

====
